---- MODULE Spec2Model ----
(***************************************************************************)
(* Catalog normalization and reconciliation engine of beam:                *)
(*   - the upsert engine (lib/upsertProduct.ts): createProductHash,        *)
(*     upsertProduct, batchUpsertProducts;                                 *)
(*   - the duplicate reconciler (scripts/dedupeShopify.ts): findDuplicate- *)
(*     Groups, getProductsInGroup, mergeProducts, dedupeGroup, main.       *)
(*                                                                         *)
(* Conventions.                                                            *)
(*   A JavaScript object is a TLA+ record whose DOMAIN holds exactly the   *)
(*   properties that are defined: an undefined property and a NULL column  *)
(*   are both "not in the DOMAIN".  JSON serialisation of a request body   *)
(*   drops undefined properties, so a write carries DOMAIN(product) only.  *)
(*   The attributes object is a sequence of <<key, value>> pairs in        *)
(*   insertion order (Object.keys order).  A text that the code splits or  *)
(*   joins character-wise (org_slug, merchant_product_id) is a sequence of *)
(*   tokens, ":" being a token of its own.                                 *)
(***************************************************************************)
EXTENDS Integers, Sequences, FiniteSets, TLC

VARIABLES
  store,      \* the products table: row id -> row
  nextId,     \* the next id the table generates
  clock,      \* the wall clock (new Date()), a logical time
  products,   \* batchUpsertProducts: its argument
  idx,        \* batchUpsertProducts: index of the next product of the loop
  summary,    \* batchUpsertProducts: the UpsertSummary being built
  log,        \* outcome of every product attempted by the running call
  firstLog,   \* log of the first call, during the second call on the same list
  run,        \* 0 before the first call, 1 during and after it, 2 for the re-run
  pc,         \* "idle" | "loop" | "returned" | "thrown"
  faults,     \* number of store calls that failed so far
  recent,     \* the latest two upsertProduct calls: input, lookup, result
  hashIn,     \* createProductHash: the products it is applied to
  hashOut,    \* createProductHash: their digests
  dpc,        \* reconciler: position of main()
  duplicateGroups, \* reconciler: the groups findDuplicateGroups returned
  gi,         \* reconciler: index of the group main works on
  fetched,    \* reconciler: products of dedupeGroup, newest first
  mergedProduct,   \* reconciler: mergedProduct of dedupeGroup
  runs,       \* reconciler: runs started
  atStart,    \* the table when the current run started
  original,   \* the table before the first run
  interrupted, \* groups a run was killed in between the two writes
  failure,    \* reconciler: the store call whose error ended the run
  tenants,    \* two organizations: the batch of each, in progress
  shop,       \* syncShopifyCatalog: upstream pages, generator, summary, trace
  mapper,     \* mapCsvRowToProduct: its arguments, the rule store, its outcome
  normalizer  \* normalizeShopifyProduct: the fetched product, its outcome

engineVars == <<store, nextId, clock, products, idx, summary, log, firstLog,
                run, pc, faults, recent>>

hashVars == <<hashIn, hashOut>>

dedupeVars == <<dpc, duplicateGroups, gi, fetched, mergedProduct, runs, atStart,
                original, interrupted, failure>>

orgVars == <<tenants>>

syncVars == <<shop>>

\* the two normalizers
mapVars == <<mapper, normalizer>>

vars == <<store, nextId, clock, products, idx, summary, log, firstLog,
          run, pc, faults, recent, hashIn, hashOut,
          dpc, duplicateGroups, gi, fetched, mergedProduct, runs, atStart,
          original, interrupted, failure, tenants, shop, mapper, normalizer>>

-----------------------------------------------------------------------------
(* Bounds of the model *)

MaxBatch == 2    \* products per batch
MaxFaults == 1   \* failures per behaviour: failing store calls, kills
MaxImages == 2   \* image_urls of a product under createProductHash
MaxAttrs == 2    \* attributes of a product under createProductHash
MaxRows == 3     \* records in the table the reconciler starts from
MaxRuns == 2     \* runs of the reconciler
MaxPages == 3    \* pages the upstream serves
MaxText == 3     \* characters (tokens) of a raw cell value
MaxCells == 2    \* cells of a raw row with several headers
MaxVariants == 2 \* variants of a fetched product

-----------------------------------------------------------------------------
(* Strings that the code sorts, in UTF-16 code unit order (Array.sort()) *)

SortOrder ==
  <<"_sync_hash", "a", "b", "c", "color", "id", "img1.jpg", "img2.jpg",
    "img3.jpg", "sku", "variants">>

Rank(s) == CHOOSE i \in 1..Len(SortOrder) : SortOrder[i] = s

RECURSIVE InsertSorted(_, _)
InsertSorted(s, x) ==
  IF s = <<>> THEN <<x>>
  ELSE IF Rank(x) < Rank(Head(s)) THEN <<x>> \o s
  ELSE <<Head(s)>> \o InsertSorted(Tail(s), x)

RECURSIVE SortStrings(_)
SortStrings(s) ==
  IF s = <<>> THEN <<>>
  ELSE InsertSorted(SortStrings(Tail(s)), Head(s))

-----------------------------------------------------------------------------
(* Objects with insertion order: Record<string, any> *)

AttrKeys(a) == [i \in 1..Len(a) |-> a[i][1]]
KeySet(a) == {a[i][1] : i \in 1..Len(a)}
HasKey(a, k) == k \in KeySet(a)
AttrGet(a, k) == a[CHOOSE i \in 1..Len(a) : a[i][1] = k][2]

\* obj[k] = v: an existing key keeps its place, a new key goes last
AttrSet(a, k, v) ==
  IF HasKey(a, k)
  THEN [i \in 1..Len(a) |-> IF a[i][1] = k THEN <<k, v>> ELSE a[i]]
  ELSE Append(a, <<k, v>>)

\* { ...a, ...b }
RECURSIVE Spread(_, _)
Spread(a, b) ==
  IF b = <<>> THEN a
  ELSE Spread(AttrSet(a, Head(b)[1], Head(b)[2]), Tail(b))

\* typeof value === 'string', by the key that holds it
StringKeys == {"_sync_hash", "color"}
NumberFields == {"price", "quantity"}

Has(p, f) == f \in DOMAIN p

TextFields == {"org_slug", "merchant_product_id", "merchant_variant_id", "sku"}

\* JavaScript truthiness of p[f]
Truthy(p, f) ==
  /\ Has(p, f)
  /\ IF f \in NumberFields THEN p[f] # 0
     ELSE IF f \in TextFields THEN p[f] # <<>>
     ELSE p[f] # ""

\* p[f] || null, null being <<>> and a value v being <<v>>
OrNull(p, f) == IF Truthy(p, f) THEN <<p[f]>> ELSE <<>>

-----------------------------------------------------------------------------
(* Content hasher: createProductHash *)

\* keys whose value is an array of objects
ObjectListKeys == {"variants"}

\* JSON.stringify(value, keys): an array replacer keeps, in every object at
\* every depth, only the properties whose name is in the list
Whitelisted(k, v, keys) ==
  IF k \in ObjectListKeys
  THEN [j \in 1..Len(v) |-> [f \in (DOMAIN v[j]) \cap keys |-> v[j][f]]]
  ELSE v

\* JSON.parse(JSON.stringify(attributes, Object.keys(attributes).sort()))
StableAttributes(a) ==
  LET ks == SortStrings(AttrKeys(a))
  IN  [i \in 1..Len(ks) |-> <<ks[i], Whitelisted(ks[i], AttrGet(a, ks[i]), KeySet(a))>>]

\* image_urls hashed in the order given
UnsortedImages(p) ==
  IF Has(p, "image_urls") THEN <<p.image_urls>> ELSE <<>>

SortedImages(p) ==
  IF Has(p, "image_urls") THEN <<SortStrings(p.image_urls)>> ELSE <<>>

\* sha1 of the serialised hashData; sha1 is taken to be injective, so the
\* digest is the serialised data itself
createProductHash(p) ==
  << OrNull(p, "title"), OrNull(p, "brand"), OrNull(p, "category"),
     OrNull(p, "price"), OrNull(p, "currency"), OrNull(p, "quantity"),
     OrNull(p, "sku"), SortedImages(p),
     IF Has(p, "attributes") THEN <<StableAttributes(p.attributes)>> ELSE <<>> >>

-----------------------------------------------------------------------------
(* Identity resolver and upsertProduct *)

IsShopify(p) == Has(p, "source") /\ p.source = "shopify"
HasIdPair(p) == Truthy(p, "merchant_product_id") /\ Truthy(p, "merchant_variant_id")

\* the priority logic without the branch for source 'shopify'
MatchColumnsWithoutSource(p) ==
  IF HasIdPair(p) THEN {"org_slug", "merchant_product_id", "merchant_variant_id"}
  ELSE IF Truthy(p, "sku") THEN {"org_slug", "sku"}
  ELSE {}

\* the priority logic with sku tried before the ID pair
MatchColumnsSkuFirst(p) ==
  IF IsShopify(p) THEN {"org_slug", "merchant_product_id", "source"}
  ELSE IF Truthy(p, "sku") THEN {"org_slug", "sku"}
  ELSE IF HasIdPair(p) THEN {"org_slug", "merchant_product_id", "merchant_variant_id"}
  ELSE {}

\* the columns of matchConditions
MatchColumns(p) ==
  IF IsShopify(p) THEN {"org_slug", "merchant_product_id", "source"}
  ELSE IF HasIdPair(p) THEN {"org_slug", "merchant_product_id", "merchant_variant_id"}
  ELSE IF Truthy(p, "sku") THEN {"org_slug", "sku"}
  ELSE {}

\* matchConditions without the organization
MatchConditionsAnyOrg(p) == [f \in MatchColumns(p) \ {"org_slug"} |-> p[f]]

MatchConditions(p) == [f \in MatchColumns(p) |-> p[f]]

\* conflictColumns.join('+')
ConflictColumns(p) ==
  IF IsShopify(p) THEN "org_slug+merchant_product_id"
  ELSE IF HasIdPair(p) THEN "org_slug+merchant_product_id+merchant_variant_id"
  ELSE IF Truthy(p, "sku") THEN "org_slug+sku"
  ELSE ""

\* a lookup on a column no row holds
MatchOnMissingColumn(st, cond) == {}

\* .match(conditions): ids of the rows equal to the conditions on every column
Match(st, cond) ==
  {id \in DOMAIN st : \A f \in DOMAIN cond : Has(st[id], f) /\ st[id][f] = cond[f]}

\* the digest taken after updated_at was added to the product
ProductWithHashOfTimestamp(p, now) ==
  [f \in (DOMAIN p) \cup {"attributes", "updated_at"} |->
     IF f = "attributes"
       THEN Spread(IF Has(p, "attributes") THEN p.attributes ELSE <<>>,
                   << <<"_sync_hash", Append(createProductHash(p), <<now>>)>> >>)
     ELSE IF f = "updated_at" THEN now
     ELSE p[f]]

\* { ...product, attributes: { ...product.attributes, _sync_hash }, updated_at }
ProductWithHash(p, now) ==
  [f \in (DOMAIN p) \cup {"attributes", "updated_at"} |->
     IF f = "attributes"
       THEN Spread(IF Has(p, "attributes") THEN p.attributes ELSE <<>>,
                   << <<"_sync_hash", createProductHash(p)>> >>)
     ELSE IF f = "updated_at" THEN now
     ELSE p[f]]

\* the text of a digest, when a digest is used where a string is expected
DigestText == "<sha1 hex digest>"

\* lines 165-170: a product without title takes its first attribute value
WithFallbackTitle(pwh) ==
  IF ~Truthy(pwh, "title") /\ pwh.attributes # <<>> /\ pwh.attributes[1][1] \in StringKeys
  THEN [f \in (DOMAIN pwh) \cup {"title"} |->
          IF f = "title"
            THEN IF pwh.attributes[1][1] = "_sync_hash" THEN DigestText
                 ELSE pwh.attributes[1][2]
          ELSE pwh[f]]
  ELSE pwh

\* .insert(body): the row holds the defined properties of the body and its id
InsertRow(st, id, body) == (id :> (body @@ [id |-> id])) @@ st

\* .update(body).eq('id', id): the defined properties of the body overwrite the
\* row's columns, every other column keeps its value
UpdateRow(st, id, body) == [st EXCEPT ![id] = body @@ st[id]]

\* the update without the merge of the stored attributes
UpdateDataWithoutMerge(pwh, existing) == pwh

\* the mutant of UpdateData: the stored attributes win over the incoming ones
UpdateDataStoredWins(pwh, existing) ==
  [pwh EXCEPT !.attributes =
     Spread(pwh.attributes,
            IF Has(existing, "attributes") THEN existing.attributes ELSE <<>>)]

\* { ...productWithHash, attributes: { ...existing.attributes, ...productWithHash.attributes } }
UpdateData(pwh, existing) ==
  [pwh EXCEPT !.attributes =
     Spread(IF Has(existing, "attributes") THEN existing.attributes ELSE <<>>,
            pwh.attributes)]

Faults == {"none", "select", "write"}

\* what a call of upsertProduct ends with; write is the store write it
\* carried out: "insert", "update" or "none"
Threw(msg) ==
  [threw |-> TRUE, error |-> msg, action |-> "error", productId |-> 0,
   matchedOn |-> "", write |-> "none"]
Returned(action, id, matchedOn) ==
  [threw |-> FALSE, error |-> "", action |-> action, productId |-> id,
   matchedOn |-> matchedOn,
   write |-> IF action = "inserted" THEN "insert"
             ELSE IF action = "updated" THEN "update" ELSE "none"]

\* upsertProduct(p) on table st: fault is the store call that fails, if any;
\* pick is existingProducts[0], the order of the matches being the store's.
\* The result is the table afterwards and what the call returned or threw.
upsertProduct(st, id, now, p, fault, pick) ==
  LET pwh == ProductWithHash(p, now)
      found == Match(st, MatchConditions(p))
  IN
  IF MatchColumns(p) = {} THEN
    IF fault = "write"
      THEN [store |-> st, res |-> Threw("Failed to insert product")]
      ELSE [store |-> InsertRow(st, id, pwh), res |-> Returned("inserted", id, "")]
  ELSE IF fault = "select"
    THEN [store |-> st, res |-> Threw("Failed to query existing products")]
  ELSE IF found # {} THEN
    IF Has(st[pick], "attributes") /\ HasKey(st[pick].attributes, "_sync_hash")
       /\ AttrGet(st[pick].attributes, "_sync_hash") = createProductHash(p)
      THEN [store |-> st, res |-> Returned("unchanged", pick, ConflictColumns(p))]
    ELSE IF fault = "write"
      THEN [store |-> st, res |-> Threw("Failed to update product")]
    ELSE [store |-> UpdateRow(st, pick, UpdateData(pwh, st[pick])),
          res |-> Returned("updated", pick, ConflictColumns(p))]
  ELSE
    IF fault = "write"
      THEN [store |-> st, res |-> Threw("Failed to insert product")]
      ELSE [store |-> InsertRow(st, id, WithFallbackTitle(pwh)),
            res |-> Returned("inserted", id, "")]

-----------------------------------------------------------------------------
(* batchUpsertProducts *)

EmptySummary(n) ==
  [seen |-> n, inserted |-> 0, updated |-> 0, unchanged |-> 0, errors |-> 0,
   error_details |-> <<>>]

\* product.merchant_product_id || product.sku || 'unknown'
BestId(p) ==
  IF Truthy(p, "merchant_product_id") THEN p.merchant_product_id
  ELSE IF Truthy(p, "sku") THEN p.sku
  ELSE <<"unknown">>

\* the loop body without its try/catch: a throw leaves batchUpsertProducts
SettleWithoutCatch(sum, p, res) ==
  IF res.threw
    THEN [pc |-> "thrown", summary |-> sum]
  ELSE IF res.action = "inserted"
    THEN [pc |-> "loop", summary |-> [sum EXCEPT !.inserted = @ + 1]]
  ELSE IF res.action = "updated"
    THEN [pc |-> "loop", summary |-> [sum EXCEPT !.updated = @ + 1]]
  ELSE [pc |-> "loop", summary |-> [sum EXCEPT !.unchanged = @ + 1]]

\* the mutant of Settle: the catch block counts the error and keeps no detail
SettleWithoutDetail(sum, p, res) ==
  IF res.threw
    THEN [pc |-> "loop", summary |-> [sum EXCEPT !.errors = @ + 1]]
  ELSE IF res.action = "inserted"
    THEN [pc |-> "loop", summary |-> [sum EXCEPT !.inserted = @ + 1]]
  ELSE IF res.action = "updated"
    THEN [pc |-> "loop", summary |-> [sum EXCEPT !.updated = @ + 1]]
  ELSE [pc |-> "loop", summary |-> [sum EXCEPT !.unchanged = @ + 1]]

\* the body of the loop after upsertProduct settled: the counters of the try
\* block, or the catch block
Settle(sum, p, res) ==
  IF res.threw
    THEN [pc |-> "loop",
          summary |-> [sum EXCEPT !.errors = @ + 1,
                         !.error_details =
                            Append(@, [product_id |-> BestId(p), error |-> res.error])]]
  ELSE IF res.action = "inserted"
    THEN [pc |-> "loop", summary |-> [sum EXCEPT !.inserted = @ + 1]]
  ELSE IF res.action = "updated"
    THEN [pc |-> "loop", summary |-> [sum EXCEPT !.updated = @ + 1]]
  ELSE [pc |-> "loop", summary |-> [sum EXCEPT !.unchanged = @ + 1]]

-----------------------------------------------------------------------------
(* Canonical products handed to the engine (outputs of mapCsvRowToProduct,   *)
(* source 'csv', and of normalizeShopifyProduct, source 'shopify')           *)

Acme == <<"acme">>
Gid1 == <<"gid", ":", "//shopify/Product/1">>
Sku1 == <<"S1">>
Sku2 == <<"S2">>
Var1 == <<"gid", ":", "//shopify/ProductVariant/1">>

Keyless ==
  [org_slug |-> Acme, source |-> "csv", title |-> "T1",
   attributes |-> << <<"a", 1>> >>]
SkuA ==
  [org_slug |-> Acme, source |-> "csv", sku |-> Sku1, title |-> "T1",
   quantity |-> 5, attributes |-> << <<"a", 1>>, <<"b", 2>> >>]
SkuB ==
  [org_slug |-> Acme, source |-> "csv", sku |-> Sku1, title |-> "T1",
   attributes |-> << <<"b", 3>>, <<"c", 4>> >>]
PairA ==
  [org_slug |-> Acme, source |-> "csv", merchant_product_id |-> Gid1,
   merchant_variant_id |-> Var1, sku |-> Sku1, title |-> "T2",
   attributes |-> << <<"color", "red">> >>]
ShopA ==
  [org_slug |-> Acme, source |-> "shopify", merchant_product_id |-> Gid1,
   merchant_variant_id |-> Var1, sku |-> Sku1, title |-> "T1", quantity |-> 5,
   image_urls |-> <<"img1.jpg", "img2.jpg">>,
   attributes |-> << <<"variants", << [id |-> 1, sku |-> Sku1] >> >> >>]
ShopB ==
  [org_slug |-> Acme, source |-> "shopify", merchant_product_id |-> Gid1,
   title |-> "T1", image_urls |-> <<"img2.jpg", "img1.jpg">>,
   attributes |-> << <<"variants", << [id |-> 1, sku |-> Sku1], [id |-> 2] >> >> >>]

SkuC ==
  [org_slug |-> Acme, source |-> "csv", sku |-> Sku2, title |-> "T3",
   attributes |-> <<>>]

Products == {Keyless, SkuA, SkuB, SkuC, PairA, ShopA, ShopB}

RECURSIVE Lists(_)
Lists(n) ==
  IF n = 0 THEN {<<>>}
  ELSE Lists(n - 1) \cup {Append(l, p) : l \in {m \in Lists(n - 1) : Len(m) = n - 1}, p \in Products}

-----------------------------------------------------------------------------
(* The engine as a state machine *)

Init ==
  /\ store = <<>>
  /\ nextId = 1
  /\ clock = 1
  /\ products = <<>>
  /\ idx = 1
  /\ summary = EmptySummary(0)
  /\ log = <<>>
  /\ firstLog = <<>>
  /\ run = 0
  /\ pc = "idle"
  /\ faults = 0
  /\ recent = <<>>
  /\ hashIn = <<>>
  /\ hashOut = <<>>
  /\ dpc = "idle"
  /\ duplicateGroups = <<>>
  /\ gi = 1
  /\ fetched = <<>>
  /\ mergedProduct = <<>>
  /\ runs = 0
  /\ atStart = <<>>
  /\ original = <<>>
  /\ interrupted = {}
  /\ failure = ""
  /\ tenants = <<>>
  /\ shop = <<>>
  /\ mapper = <<>>
  /\ normalizer = <<>>

\* a caller invokes batchUpsertProducts(list): lines 192-200
StartBatch(list) ==
  /\ pc = "idle"
  /\ products' = list
  /\ idx' = 1
  /\ summary' = EmptySummary(Len(list))
  /\ log' = <<>>
  /\ run' = 1
  /\ pc' = "loop"
  /\ UNCHANGED <<store, nextId, clock, firstLog, faults, recent, hashVars, dedupeVars, orgVars, syncVars, mapVars>>

\* the caller runs batchUpsertProducts again on the same list
Rerun ==
  /\ pc = "returned"
  /\ run = 1
  /\ idx' = 1
  /\ summary' = EmptySummary(Len(products))
  /\ firstLog' = log
  /\ log' = <<>>
  /\ run' = 2
  /\ pc' = "loop"
  /\ UNCHANGED <<store, nextId, clock, products, faults, recent, hashVars, dedupeVars, orgVars, syncVars, mapVars>>

\* one iteration of the loop: lines 202-229
BatchStep ==
  /\ pc = "loop"
  /\ idx <= Len(products)
  /\ \E fault \in Faults :
     \E pick \in Match(store, MatchConditions(products[idx])) \cup {0} :
       LET p == products[idx]
           found == IF MatchColumns(p) = {} THEN {} ELSE Match(store, MatchConditions(p))
           out == upsertProduct(store, nextId, clock, p, fault, pick)
           after == Settle(summary, p, out.res)
       IN  /\ (pick = 0) = (found = {})
           /\ pick # 0 => pick \in found
           /\ out.res.threw => faults < MaxFaults
           /\ faults' = IF out.res.threw THEN faults + 1 ELSE faults
           /\ store' = out.store
           /\ nextId' = IF out.res.action = "inserted" THEN nextId + 1 ELSE nextId
           /\ clock' = IF out.store # store THEN clock + 1 ELSE clock
           /\ summary' = after.summary
           /\ pc' = after.pc
           /\ log' = Append(log, out.res.action)
           /\ idx' = idx + 1
           /\ recent' =
                (IF recent = <<>> THEN <<>> ELSE <<recent[Len(recent)]>>)
                \o << [product |-> p, res |-> out.res,
                       columns |-> MatchColumns(p), found |-> found,
                       pre |-> IF pick = 0 THEN <<>> ELSE <<store[pick]>>,
                       before |-> DOMAIN store] >>
  /\ UNCHANGED <<products, firstLog, run, hashVars, dedupeVars, orgVars, syncVars, mapVars>>

\* return summary: line 231
BatchReturn ==
  /\ pc = "loop"
  /\ idx > Len(products)
  /\ pc' = "returned"
  /\ UNCHANGED <<store, nextId, clock, products, idx, summary, log, firstLog,
                 run, faults, recent, hashVars, dedupeVars, orgVars, syncVars, mapVars>>

Next ==
  \/ \E list \in Lists(MaxBatch) : StartBatch(list)
  \/ Rerun
  \/ BatchStep
  \/ BatchReturn

Spec == Init /\ [][Next]_vars

-----------------------------------------------------------------------------
(* The engine on products that come without title *)

Bare == [org_slug |-> Acme, source |-> "csv", sku |-> Sku1]
NoAttrs == [org_slug |-> Acme, source |-> "csv", sku |-> Sku2, attributes |-> <<>>]
Coloured ==
  [org_slug |-> Acme, source |-> "csv", sku |-> Sku1,
   attributes |-> << <<"color", "red">>, <<"a", 1>> >>]
Counted ==
  [org_slug |-> Acme, source |-> "csv", sku |-> Sku2,
   attributes |-> << <<"a", 1>>, <<"color", "red">> >>]

Untitled == {Bare, NoAttrs, Coloured, Counted}

UntitledLists(n) ==
  {l \in UNION {[1..k -> Untitled \cup {SkuA}] : k \in 0..n} :
     \E i \in 1..Len(l) : l[i] \in Untitled}

NextTitles ==
  \/ \E list \in UntitledLists(MaxBatch) : StartBatch(list)
  \/ Rerun
  \/ BatchStep
  \/ BatchReturn

SpecTitles == Init /\ [][NextTitles]_vars

-----------------------------------------------------------------------------
(* createProductHash applied to a product and to a reordering of it *)

Urls == {"img1.jpg", "img2.jpg", "img3.jpg"}

SampleAttrs ==
  { <<"a", 1>>, <<"b", 2>>, <<"color", "red">>,
    <<"variants", << [id |-> 1, sku |-> Sku1] >> >> }

RECURSIVE SeqsUpTo(_, _)
SeqsUpTo(S, n) ==
  IF n = 0 THEN {<<>>}
  ELSE SeqsUpTo(S, n - 1)
       \cup {Append(l, x) : l \in {m \in SeqsUpTo(S, n - 1) : Len(m) = n - 1}, x \in S}

\* objects: no key twice
AttrObjects(n) ==
  {a \in SeqsUpTo(SampleAttrs, n) : \A i, j \in 1..Len(a) : i # j => a[i][1] # a[j][1]}

HashBase == [org_slug |-> Acme, source |-> "csv", sku |-> Sku1, title |-> "T1", price |-> 5]

HashProducts ==
  {HashBase @@ [attributes |-> a] : a \in AttrObjects(MaxAttrs)}
  \cup {HashBase @@ [attributes |-> a, image_urls |-> u] :
          a \in AttrObjects(MaxAttrs), u \in SeqsUpTo(Urls, MaxImages)}

Occurrences(s, x) == Cardinality({i \in 1..Len(s) : s[i] = x})

\* t holds the elements of s, each as often, in any order
IsPermutation(s, t) ==
  /\ Len(s) = Len(t)
  /\ \A i \in 1..Len(s) : Occurrences(t, s[i]) = Occurrences(s, s[i])

\* q is p with image_urls permuted and the keys of attributes inserted in
\* another order
IsReordering(p, q) ==
  /\ DOMAIN q = DOMAIN p
  /\ \A f \in DOMAIN p \ {"image_urls", "attributes"} : q[f] = p[f]
  /\ Has(p, "image_urls") => IsPermutation(p.image_urls, q.image_urls)
  /\ Len(q.attributes) = Len(p.attributes)
  /\ \A k \in KeySet(p.attributes) :
       HasKey(q.attributes, k) /\ AttrGet(q.attributes, k) = AttrGet(p.attributes, k)

InitHash ==
  /\ Init
  /\ hashIn \in {<<>>}

\* a product reaches the hasher, and later the same product reordered
HashInput ==
  /\ hashIn = <<>>
  /\ \E p \in HashProducts : hashIn' = <<p>>
  /\ UNCHANGED <<engineVars, dedupeVars, orgVars, syncVars, mapVars, hashOut>>

HashReordered ==
  /\ Len(hashIn) = 1
  /\ \E q \in HashProducts :
       /\ IsReordering(hashIn[1], q)
       /\ hashIn' = <<hashIn[1], q>>
  /\ UNCHANGED <<engineVars, dedupeVars, orgVars, syncVars, mapVars, hashOut>>

\* const currentHash = createProductHash(product), for both
HashBoth ==
  /\ Len(hashIn) = 2
  /\ hashOut = <<>>
  /\ hashOut' = <<createProductHash(hashIn[1]), createProductHash(hashIn[2])>>
  /\ UNCHANGED <<engineVars, dedupeVars, orgVars, syncVars, mapVars, hashIn>>

NextHash == HashInput \/ HashReordered \/ HashBoth

SpecHash == InitHash /\ [][NextHash]_vars

-----------------------------------------------------------------------------
(* Change detection on attribute values: a product is ingested, then the    *)
(* same product with an attribute value changed                             *)

\* attribute values by key; the entries of variants are the objects
\* normalizeShopifyProduct builds
DepthAttrs ==
  { <<"a", 1>>, <<"a", 2>>, <<"color", "red">>, <<"color", "blue">>,
    <<"variants", << [id |-> 1, sku |-> Sku1, price |-> 5] >> >>,
    <<"variants", << [id |-> 1, sku |-> Sku2, price |-> 5] >> >>,
    <<"variants", << [id |-> 1, sku |-> Sku1, price |-> 6] >> >> }

DepthObjects(n) ==
  {a \in SeqsUpTo(DepthAttrs, n) : \A i, j \in 1..Len(a) : i # j => a[i][1] # a[j][1]}

DepthProducts == {HashBase @@ [attributes |-> a] : a \in DepthObjects(MaxAttrs) \ {<<>>}}

\* q is p with the value of at least one attribute changed and nothing else
DiffersInAttributeValue(p, q) ==
  /\ DOMAIN q = DOMAIN p
  /\ \A f \in DOMAIN p \ {"attributes"} : q[f] = p[f]
  /\ AttrKeys(q.attributes) = AttrKeys(p.attributes)
  /\ q.attributes # p.attributes

\* await upsertProduct(p) on the empty table
DepthIngest ==
  /\ hashIn = <<>>
  /\ \E p \in DepthProducts :
       \E r \in {upsertProduct(store, nextId, clock, p, "none", nextId)} :
         /\ store' = r.store
         /\ hashIn' = <<p>>
  /\ nextId' = nextId + 1
  /\ clock' = clock + 1
  /\ UNCHANGED <<products, idx, summary, log, firstLog, run, pc, faults, recent,
                 dedupeVars, orgVars, syncVars, mapVars, hashOut>>

\* await upsertProduct(q), q the changed product: the digests of both and
\* the action returned for q are kept
DepthReingest ==
  /\ Len(hashIn) = 1
  /\ hashOut = <<>>
  /\ \E q \in DepthProducts, pick \in DOMAIN store :
       /\ DiffersInAttributeValue(hashIn[1], q)
       /\ pick \in Match(store, MatchConditions(q))
       /\ \E r \in {upsertProduct(store, nextId, clock, q, "none", pick)} :
            /\ store' = r.store
            /\ hashIn' = <<hashIn[1], q>>
            /\ hashOut' = <<createProductHash(hashIn[1]), createProductHash(q),
                            r.res.action>>
  /\ nextId' = nextId + 1
  /\ clock' = clock + 1
  /\ UNCHANGED <<products, idx, summary, log, firstLog, run, pc, faults, recent,
                 dedupeVars, orgVars, syncVars, mapVars>>

NextDepth == DepthIngest \/ DepthReingest

SpecDepth == InitHash /\ [][NextDepth]_vars

-----------------------------------------------------------------------------
(* scripts/dedupeShopify.ts: the duplicate reconciler *)

\* "gid://shopify/Product/1" is Gid1; a product id of the REST API has no ':'
P1001 == <<"1001">>

Null == <<"null">>         \* `${null}` in a template string

IsShopifyRow(row) == Has(row, "source") /\ row.source = "shopify"

\* `${row.org_slug}:${row.merchant_product_id}`
GroupKey(row) ==
  row.org_slug \o <<":">>
    \o (IF Has(row, "merchant_product_id") THEN row.merchant_product_id ELSE Null)

\* key.split(':')
RECURSIVE Split(_)
Split(t) ==
  IF \A i \in 1..Len(t) : t[i] # ":" THEN <<t>>
  ELSE LET i == CHOOSE n \in 1..Len(t) : t[n] = ":" /\ \A j \in 1..(n - 1) : t[j] # ":"
       IN  <<SubSeq(t, 1, i - 1)>> \o Split(SubSeq(t, i + 1, Len(t)))

\* the ids of S in ascending order
RECURSIVE Ascending(_)
Ascending(S) ==
  IF S = {} THEN <<>>
  ELSE LET m == CHOOSE x \in S : \A y \in S : x <= y
       IN  <<m>> \o Ascending(S \ {m})

\* the keys of the Map in insertion order: the order they first occur in data
RECURSIVE KeysOf(_, _)
KeysOf(st, ids) ==
  IF ids = <<>> THEN <<>>
  ELSE LET rest == KeysOf(st, SubSeq(ids, 1, Len(ids) - 1))
           key  == GroupKey(st[ids[Len(ids)]])
       IN  IF \E i \in 1..Len(rest) : rest[i] = key THEN rest ELSE Append(rest, key)

\* duplicates.sort((a, b) => b.duplicate_count - a.duplicate_count), stable
RECURSIVE InsertByCount(_, _)
InsertByCount(s, g) ==
  IF s = <<>> THEN <<g>>
  ELSE IF Head(s).duplicate_count < g.duplicate_count THEN <<g>> \o s
  ELSE <<Head(s)>> \o InsertByCount(Tail(s), g)

RECURSIVE SortByCount(_)
SortByCount(s) ==
  IF s = <<>> THEN <<>>
  ELSE InsertByCount(SortByCount(SubSeq(s, 1, Len(s) - 1)), s[Len(s)])

\* const [org_slug, merchant_product_id] = key.split(':')
ParseKey(key, count) ==
  [org_slug |-> Split(key)[1], merchant_product_id |-> Split(key)[2],
   duplicate_count |-> count]

findDuplicateGroups(st) ==
  LET data   == Ascending({id \in DOMAIN st : IsShopifyRow(st[id])})
      keys   == KeysOf(st, data)
      Count(key) == Cardinality({i \in 1..Len(data) : GroupKey(st[data[i]]) = key})
      dupIdx == {i \in 1..Len(keys) : Count(keys[i]) > 1}
      dups   == Ascending(dupIdx)
  IN  SortByCount([n \in 1..Len(dups) |-> ParseKey(keys[dups[n]], Count(keys[dups[n]]))])

\* the mutant of GroupIds: the group is fetched without the filter on source
GroupIdsOfAnySource(st, org_slug, merchant_product_id) ==
  Match(st, [org_slug |-> org_slug, merchant_product_id |-> merchant_product_id])

\* .eq('org_slug', ..).eq('merchant_product_id', ..).eq('source', 'shopify')
GroupIds(st, org_slug, merchant_product_id) ==
  Match(st, [org_slug |-> org_slug, merchant_product_id |-> merchant_product_id,
             source |-> "shopify"])

RECURSIVE Orderings(_)
Orderings(S) ==
  IF S = {} THEN {<<>>}
  ELSE UNION {{<<x>> \o s : s \in Orderings(S \ {x})} : x \in S}

\* .order('updated_at', { ascending: false }): rows of equal updated_at come
\* in any order
getProductsInGroup(st, org_slug, merchant_product_id) ==
  {[i \in 1..Len(o) |-> st[o[i]]] :
     o \in {s \in Orderings(GroupIds(st, org_slug, merchant_product_id)) :
              \A i, j \in 1..Len(s) :
                 i < j => st[s[i]].updated_at >= st[s[j]].updated_at}}

ImagesOf(row) ==
  IF Has(row, "image_urls")
  THEN {row.image_urls[i] : i \in 1..Len(row.image_urls)} ELSE {}

VariantsOf(row) ==
  IF Has(row, "attributes") /\ HasKey(row.attributes, "variants")
  THEN AttrGet(row.attributes, "variants") ELSE <<>>

VariantIds(row) ==
  {VariantsOf(row)[i].id : i \in {n \in 1..Len(VariantsOf(row)) : Has(VariantsOf(row)[n], "id")}}

RECURSIVE SeqOfSet(_)
SeqOfSet(S) ==
  IF S = {} THEN <<>>
  ELSE LET x == CHOOSE y \in S : TRUE IN <<x>> \o SeqOfSet(S \ {x})

\* allVariants.set(variant.id, variant) for each variant of the list
RECURSIVE SetVariants(_, _)
SetVariants(map, vs) ==
  IF vs = <<>> THEN map
  ELSE SetVariants(IF Has(Head(vs), "id") /\ Head(vs).id # 0
                   THEN AttrSet(map, Head(vs).id, Head(vs)) ELSE map,
                   Tail(vs))

\* the Map of variants after the loop over the first n products
RECURSIVE AllVariants(_, _)
AllVariants(ps, n) ==
  IF n = 0 THEN <<>>
  ELSE SetVariants(AllVariants(ps, n - 1), VariantsOf(ps[n]))

\* the merge with the spread the other way round: the later product of the
\* loop overrides
RECURSIVE MergedAttributesLaterWins(_, _)
MergedAttributesLaterWins(ps, n) ==
  IF n = 0 THEN IF Has(ps[1], "attributes") THEN <<ps[1].attributes>> ELSE <<>>
  ELSE LET acc == MergedAttributesLaterWins(ps, n - 1)
       IN  IF Has(ps[n], "attributes")
           THEN <<Spread(IF acc = <<>> THEN <<>> ELSE acc[1], ps[n].attributes)>>
           ELSE acc

\* survivor.attributes after the loop over the first n products; <<>> is null,
\* <<a>> the object a
RECURSIVE MergedAttributes(_, _)
MergedAttributes(ps, n) ==
  IF n = 0 THEN IF Has(ps[1], "attributes") THEN <<ps[1].attributes>> ELSE <<>>
  ELSE LET acc == MergedAttributes(ps, n - 1)
       IN  IF Has(ps[n], "attributes")
           THEN <<Spread(ps[n].attributes, IF acc = <<>> THEN <<>> ELSE acc[1])>>
           ELSE acc

mergeProducts(ps) ==
  LET urls  == UNION {ImagesOf(ps[i]) : i \in 1..Len(ps)}
      map   == AllVariants(ps, Len(ps))
      attrs == MergedAttributes(ps, Len(ps))
      withImages == [image_urls |-> SortStrings(SeqOfSet(urls))] @@ ps[1]
  IN  IF attrs = <<>> THEN withImages
      ELSE [attributes |->
              AttrSet(attrs[1], "variants", [i \in 1..Len(map) |-> map[i][2]])]
           @@ withImages

\* the columns dedupeGroup writes to the survivor
updateData(merged, now) ==
  [f \in ({"title", "brand", "category", "price", "currency", "quantity", "sku",
           "image_urls", "attributes"} \cap DOMAIN merged) \cup {"updated_at"} |->
     IF f = "updated_at" THEN now ELSE merged[f]]

\* .delete().in('id', loserIds)
DeleteRows(st, ids) == [id \in DOMAIN st \ ids |-> st[id]]

\* dedupeGroup deleting the losers before it updates the survivor
DeleteThenUpdate == <<"delete", "update">>

\* the two writes of dedupeGroup, in the order it makes them
dedupeGroupSteps == <<"update", "delete">>

\* records the table can hold: Shopify products synced more than once
\* (normalizeShopifyProduct), and a CSV product of the same merchant_product_id
ShopifyRow(mpid, urls, attrs) ==
  [org_slug |-> Acme, merchant_product_id |-> mpid, source |-> "shopify",
   title |-> "T1", image_urls |-> urls, attributes |-> attrs]

K1 == ShopifyRow(P1001, <<"img1.jpg">>,
        << <<"variants", << [id |-> 1, sku |-> Sku1] >> >>, <<"a", 1>> >>)
K2 == ShopifyRow(P1001, <<"img2.jpg">>,
        << <<"variants", << [id |-> 2, sku |-> Sku2] >> >>, <<"a", 2>>, <<"b", 2>> >>)
K3 == ShopifyRow(P1001, <<"img3.jpg", "img1.jpg">>,
        << <<"variants", << [id |-> 3, sku |-> Sku1], [id |-> 1, sku |-> Sku2] >> >> >>)
K4 == [org_slug |-> Acme, merchant_product_id |-> P1001, source |-> "shopify",
       title |-> "T2"]
G1 == ShopifyRow(Gid1, <<"img1.jpg">>,
        << <<"variants", << [id |-> 1, sku |-> Sku1] >> >> >>)
X1 == [org_slug |-> Acme, merchant_product_id |-> P1001, source |-> "csv",
       title |-> "T3", image_urls |-> <<"img3.jpg">>, attributes |-> << <<"a", 3>> >>]

StoredRows == {K1, K2, K3, K4, G1, X1}

\* tables of n records; updated_at is distinct per record, or the same for all
Tables(n) ==
  {[id \in 1..n |-> rows[id] @@ [id |-> id, updated_at |-> IF tied THEN 1 ELSE id]] :
     rows \in [1..n -> StoredRows], tied \in BOOLEAN}

InitDedupe ==
  /\ \E n \in 2..MaxRows : store \in Tables(n)
  /\ nextId = Cardinality(DOMAIN store) + 1
  /\ clock = Cardinality(DOMAIN store) + 1
  /\ products = <<>>
  /\ idx = 1
  /\ summary = EmptySummary(0)
  /\ log = <<>>
  /\ firstLog = <<>>
  /\ run = 0
  /\ pc = "idle"
  /\ faults = 0
  /\ recent = <<>>
  /\ hashIn = <<>>
  /\ hashOut = <<>>
  /\ dpc = "idle"
  /\ duplicateGroups = <<>>
  /\ gi = 1
  /\ fetched = <<>>
  /\ mergedProduct = <<>>
  /\ runs = 0
  /\ atStart = store
  /\ original = store
  /\ interrupted = {}
  /\ failure = ""
  /\ tenants = <<>>
  /\ shop = <<>>
  /\ mapper = <<>>
  /\ normalizer = <<>>

untouched == <<nextId, products, idx, summary, log, firstLog, run, pc, recent,
               hashVars, orgVars, syncVars, mapVars, original>>

\* the script is run: main()
StartRun ==
  /\ dpc \in {"idle", "done", "exit1", "crashed"}
  /\ runs < MaxRuns
  /\ dpc' = "main"
  /\ runs' = runs + 1
  /\ atStart' = store
  /\ failure' = ""
  /\ UNCHANGED <<store, clock, faults, duplicateGroups, gi, fetched, mergedProduct,
                 interrupted, untouched>>

\* the position after group gi is done: the next group, or main returns
AfterGroup(n) == IF n < Len(duplicateGroups) THEN "dedupeGroup" ELSE "done"

\* const duplicateGroups = await findDuplicateGroups()
Scan ==
  /\ dpc = "main"
  /\ \/ /\ faults < MaxFaults
        /\ faults' = faults + 1
        /\ dpc' = "exit1"
        /\ failure' = "Failed to query products"
        /\ UNCHANGED <<duplicateGroups, gi>>
     \/ /\ duplicateGroups' = findDuplicateGroups(store)
        /\ gi' = 1
        /\ dpc' = IF Len(duplicateGroups') = 0 THEN "done" ELSE "dedupeGroup"
        /\ UNCHANGED <<faults, failure>>
  /\ UNCHANGED <<store, clock, fetched, mergedProduct, runs, atStart, interrupted,
                 untouched>>

\* dedupeGroup(group) up to the merge: lines 222-235
Fetch ==
  /\ dpc = "dedupeGroup"
  /\ \/ /\ faults < MaxFaults
        /\ faults' = faults + 1
        /\ dpc' = "exit1"
        /\ failure' = "Failed to query products for group"
        /\ UNCHANGED <<gi, fetched, mergedProduct>>
     \/ /\ \E ps \in getProductsInGroup(store, duplicateGroups[gi].org_slug,
                                        duplicateGroups[gi].merchant_product_id) :
             IF Len(ps) <= 1
             THEN /\ dpc' = AfterGroup(gi)
                  /\ gi' = gi + 1
                  /\ UNCHANGED <<fetched, mergedProduct>>
             ELSE /\ fetched' = ps
                  /\ mergedProduct' = mergeProducts(ps)
                  /\ dpc' = dedupeGroupSteps[1]
                  /\ UNCHANGED gi
        /\ UNCHANGED <<faults, failure>>
  /\ UNCHANGED <<store, clock, duplicateGroups, runs, atStart, interrupted, untouched>>

\* where dedupeGroup goes after one of its two writes
AfterStep(step) ==
  IF step = dedupeGroupSteps[1] THEN dedupeGroupSteps[2] ELSE AfterGroup(gi)

\* .update(updateData).eq('id', survivorId): lines 241-262
UpdateSurvivor ==
  /\ dpc = "update"
  /\ \/ /\ faults < MaxFaults
        /\ faults' = faults + 1
        /\ dpc' = "exit1"
        /\ failure' = "Failed to update survivor"
        /\ UNCHANGED <<store, clock, gi>>
     \/ /\ store' = IF mergedProduct.id \in DOMAIN store
                    THEN UpdateRow(store, mergedProduct.id, updateData(mergedProduct, clock))
                    ELSE store
        /\ clock' = clock + 1
        /\ dpc' = AfterStep("update")
        /\ gi' = IF dpc' \in {"update", "delete"} THEN gi ELSE gi + 1
        /\ UNCHANGED <<faults, failure>>
  /\ UNCHANGED <<duplicateGroups, fetched, mergedProduct, runs, atStart, interrupted,
                 untouched>>

\* .delete().in('id', loserIds): lines 264-272
DeleteLosers ==
  /\ dpc = "delete"
  /\ \/ /\ faults < MaxFaults
        /\ faults' = faults + 1
        /\ dpc' = "exit1"
        /\ failure' = "Failed to delete losers"
        /\ UNCHANGED <<store, gi>>
     \/ /\ store' = DeleteRows(store, {fetched[i].id : i \in 2..Len(fetched)})
        /\ dpc' = AfterStep("delete")
        /\ gi' = IF dpc' \in {"update", "delete"} THEN gi ELSE gi + 1
        /\ UNCHANGED <<faults, failure>>
  /\ UNCHANGED <<clock, duplicateGroups, fetched, mergedProduct, runs, atStart,
                 interrupted, untouched>>

\* the process is killed while it works on a group; interrupted keeps the
\* groups it was killed in between the two writes
Crash ==
  /\ dpc \in {"dedupeGroup", "update", "delete"}
  /\ faults < MaxFaults
  /\ faults' = faults + 1
  /\ dpc' = "crashed"
  /\ interrupted' =
       IF dpc = dedupeGroupSteps[2]
       THEN interrupted \cup {<<fetched[1].org_slug, fetched[1].merchant_product_id>>}
       ELSE interrupted
  /\ UNCHANGED <<store, clock, duplicateGroups, gi, fetched, mergedProduct,
                 runs, atStart, failure, untouched>>

\* a table with the duplicates of two products
P1002 == <<"1002">>

L1 == [org_slug |-> Acme, merchant_product_id |-> P1002, source |-> "shopify",
       title |-> "T2", image_urls |-> <<"img1.jpg">>,
       attributes |-> << <<"variants", << [id |-> 4, sku |-> Sku1] >> >> >>]
L2 == [org_slug |-> Acme, merchant_product_id |-> P1002, source |-> "shopify",
       title |-> "T2", image_urls |-> <<"img2.jpg">>,
       attributes |-> << <<"variants", << [id |-> 5, sku |-> Sku2] >> >> >>]

GroupRows == {K1, K2, L1, L2}

GroupTables(n) ==
  {[id \in 1..n |-> rows[id] @@ [id |-> id, updated_at |-> IF tied THEN 1 ELSE id]] :
     rows \in [1..n -> GroupRows], tied \in BOOLEAN}

InitGroups ==
  /\ \E n \in 4..(MaxRows + 1) : store \in GroupTables(n)
  /\ nextId = Cardinality(DOMAIN store) + 1
  /\ clock = Cardinality(DOMAIN store) + 1
  /\ products = <<>>
  /\ idx = 1
  /\ summary = EmptySummary(0)
  /\ log = <<>>
  /\ firstLog = <<>>
  /\ run = 0
  /\ pc = "idle"
  /\ faults = 0
  /\ recent = <<>>
  /\ hashIn = <<>>
  /\ hashOut = <<>>
  /\ dpc = "idle"
  /\ duplicateGroups = <<>>
  /\ gi = 1
  /\ fetched = <<>>
  /\ mergedProduct = <<>>
  /\ runs = 0
  /\ atStart = store
  /\ original = store
  /\ interrupted = {}
  /\ failure = ""
  /\ tenants = <<>>
  /\ shop = <<>>
  /\ mapper = <<>>
  /\ normalizer = <<>>

NextDedupe == StartRun \/ Scan \/ Fetch \/ UpdateSurvivor \/ DeleteLosers \/ Crash

SpecDedupe == InitDedupe /\ [][NextDedupe]_vars

SpecGroups == InitGroups /\ [][NextDedupe]_vars

\* tables for the frame of a run: duplicates of a product with a plain id
\* and of one with a global id, beside a CSV record of the same
\* merchant_product_id
FrameRows == {K1, K2, G1, X1}

FrameTables(n) ==
  {[id \in 1..n |-> rows[id] @@ [id |-> id, updated_at |-> IF tied THEN 1 ELSE id]] :
     rows \in [1..n -> FrameRows], tied \in BOOLEAN}

InitFrame ==
  /\ \E n \in 2..MaxRows : store \in FrameTables(n)
  /\ nextId = Cardinality(DOMAIN store) + 1
  /\ clock = Cardinality(DOMAIN store) + 1
  /\ products = <<>>
  /\ idx = 1
  /\ summary = EmptySummary(0)
  /\ log = <<>>
  /\ firstLog = <<>>
  /\ run = 0
  /\ pc = "idle"
  /\ faults = 0
  /\ recent = <<>>
  /\ hashIn = <<>>
  /\ hashOut = <<>>
  /\ dpc = "idle"
  /\ duplicateGroups = <<>>
  /\ gi = 1
  /\ fetched = <<>>
  /\ mergedProduct = <<>>
  /\ runs = 0
  /\ atStart = store
  /\ original = store
  /\ interrupted = {}
  /\ failure = ""
  /\ tenants = <<>>
  /\ shop = <<>>
  /\ mapper = <<>>
  /\ normalizer = <<>>

SpecFrame == InitFrame /\ [][NextDedupe]_vars

-----------------------------------------------------------------------------
(* batchUpsertProducts for two organizations at once: the calls of one batch *)
(* interleave with the calls of the other at the awaits of upsertProduct,    *)
(* the select and the write                                                  *)

Beta == <<"beta">>

Orgs == {Acme, Beta}

InOrg(p, o) == [p EXCEPT !.org_slug = o]

\* products that share a sku within an organization and across the two
OrgProducts == {SkuA, SkuB, PairA}

RECURSIVE OrgLists(_)
OrgLists(n) ==
  IF n = 1 THEN {<<p>> : p \in OrgProducts}
  ELSE OrgLists(n - 1)
       \cup {Append(l, p) : l \in {m \in OrgLists(n - 1) : Len(m) = n - 1}, p \in OrgProducts}

\* the batches of the second organization
BetaLists == {<<SkuA, SkuB>>, <<PairA, SkuA>>}

\* the place of x in S in ascending order, and back; a store returns the
\* matches in some order, the choice of existingProducts[0] is kept as a rank
\* among the matching ids
RankIn(S, x) == Cardinality({y \in S : y <= x})
Nth(S, r) ==
  IF S = {} THEN 0
  ELSE IF r \in 1..Cardinality(S) THEN CHOOSE x \in S : RankIn(S, x) = r
  ELSE CHOOSE x \in S : RankIn(S, x) = 1

\* a batch in progress: batchUpsertProducts(products) of one organization
Batch(o, list) ==
  [products |-> [i \in 1..Len(list) |-> InOrg(list[i], o)],
   idx |-> 1,
   summary |-> EmptySummary(Len(list)),
   pc |-> "select",
   now |-> 0, found |-> {}, pick |-> 0, existing |-> <<>>,
   choices |-> <<>>]

\* the iteration of the loop is over: counters or catch block, next product
Settled(b, res, fault, rank) ==
  [b EXCEPT !.summary = Settle(b.summary, b.products[b.idx], res).summary,
            !.idx = b.idx + 1,
            !.pc = IF b.idx = Len(b.products) THEN "returned" ELSE "select",
            !.found = {}, !.pick = 0, !.existing = <<>>, !.now = 0,
            !.choices = Append(b.choices, <<fault, rank>>)]

InitOrgs ==
  /\ store = <<>>
  /\ nextId = 1
  /\ clock = 1
  /\ products = <<>>
  /\ idx = 1
  /\ summary = EmptySummary(0)
  /\ log = <<>>
  /\ firstLog = <<>>
  /\ run = 0
  /\ pc = "idle"
  /\ faults = 0
  /\ recent = <<>>
  /\ hashIn = <<>>
  /\ hashOut = <<>>
  /\ dpc = "idle"
  /\ duplicateGroups = <<>>
  /\ gi = 1
  /\ fetched = <<>>
  /\ mergedProduct = <<>>
  /\ runs = 0
  /\ atStart = <<>>
  /\ original = <<>>
  /\ interrupted = {}
  /\ failure = ""
  /\ tenants \in {[o \in Orgs |-> Batch(o, IF o = Acme THEN la ELSE lb)] :
                    la \in OrgLists(MaxBatch), lb \in BetaLists}
  /\ shop = <<>>
  /\ mapper = <<>>
  /\ normalizer = <<>>

orgFrame == <<products, idx, summary, log, firstLog, run, pc, recent, hashVars,
              dedupeVars, syncVars, mapVars>>

\* upsertProduct up to the answer of the select: lines 49-132; a product
\* without identity key is inserted at once, lines 90-106
Select(o) ==
  LET b == tenants[o]
      p == b.products[b.idx]
      found == Match(store, MatchConditions(p))
  IN
  /\ b.pc = "select"
  /\ IF MatchColumns(p) = {}
     THEN \/ /\ faults < MaxFaults
             /\ faults' = faults + 1
             /\ tenants' = [tenants EXCEPT ![o] =
                   Settled(b, Threw("Failed to insert product"), "write", 0)]
             /\ UNCHANGED <<store, nextId, clock>>
          \/ /\ store' = InsertRow(store, nextId, ProductWithHash(p, clock))
             /\ nextId' = nextId + 1
             /\ clock' = clock + 1
             /\ tenants' = [tenants EXCEPT ![o] =
                   Settled(b, Returned("inserted", nextId, ""), "none", 0)]
             /\ UNCHANGED faults
     ELSE \/ /\ faults < MaxFaults
             /\ faults' = faults + 1
             /\ tenants' = [tenants EXCEPT ![o] =
                   Settled(b, Threw("Failed to query existing products"), "select", 0)]
             /\ UNCHANGED <<store, nextId, clock>>
          \/ /\ \E pick \in found \cup {0} :
                  /\ (pick = 0) = (found = {})
                  /\ IF pick # 0 /\ Has(store[pick], "attributes")
                        /\ HasKey(store[pick].attributes, "_sync_hash")
                        /\ AttrGet(store[pick].attributes, "_sync_hash") = createProductHash(p)
                     THEN tenants' = [tenants EXCEPT ![o] =
                            Settled(b, Returned("unchanged", pick, ConflictColumns(p)),
                                    "none", RankIn(found, pick))]
                     ELSE tenants' = [tenants EXCEPT ![o] =
                            [b EXCEPT !.pc = "write", !.now = clock, !.found = found,
                                      !.pick = pick,
                                      !.existing = IF pick = 0 THEN <<>> ELSE <<store[pick]>>]]
             /\ UNCHANGED <<store, nextId, clock, faults>>
  /\ UNCHANGED orgFrame

\* upsertProduct from the select's answer on: the update of the matched
\* record, lines 134-161, or the insert, lines 163-186
Write(o) ==
  LET b == tenants[o]
      p == b.products[b.idx]
      pwh == ProductWithHash(p, b.now)
      rank == IF b.pick = 0 THEN 0 ELSE RankIn(b.found, b.pick)
  IN
  /\ b.pc = "write"
  /\ \/ /\ faults < MaxFaults
        /\ faults' = faults + 1
        /\ tenants' = [tenants EXCEPT ![o] =
              Settled(b, Threw(IF b.pick = 0 THEN "Failed to insert product"
                               ELSE "Failed to update product"), "write", rank)]
        /\ UNCHANGED <<store, nextId, clock>>
     \/ /\ IF b.pick = 0
           THEN /\ store' = InsertRow(store, nextId, WithFallbackTitle(pwh))
                /\ nextId' = nextId + 1
                /\ tenants' = [tenants EXCEPT ![o] =
                      Settled(b, Returned("inserted", nextId, ""), "none", rank)]
           ELSE /\ store' = UpdateRow(store, b.pick, UpdateData(pwh, b.existing[1]))
                /\ nextId' = nextId
                /\ tenants' = [tenants EXCEPT ![o] =
                      Settled(b, Returned("updated", b.pick, ConflictColumns(p)), "none", rank)]
        /\ clock' = clock + 1
        /\ UNCHANGED faults
  /\ UNCHANGED orgFrame

NextOrgs == \E o \in Orgs : Select(o) \/ Write(o)

SpecOrgs == InitOrgs /\ [][NextOrgs]_vars

-----------------------------------------------------------------------------
(* Two calls of upsertProduct at once for products with the same identity   *)
(* key, against an empty table; the two callers take the places of the two  *)
(* batches, each with one product of the same organization                  *)

RaceProducts == {SkuA, SkuB, SkuC, PairA, ShopA, ShopB}

SameIdentityKey(p, q) ==
  /\ MatchColumns(p) # {}
  /\ MatchColumns(p) = MatchColumns(q)
  /\ MatchConditions(p) = MatchConditions(q)

InitRace ==
  /\ store = <<>>
  /\ nextId = 1
  /\ clock = 1
  /\ products = <<>>
  /\ idx = 1
  /\ summary = EmptySummary(0)
  /\ log = <<>>
  /\ firstLog = <<>>
  /\ run = 0
  /\ pc = "idle"
  /\ faults = 0
  /\ recent = <<>>
  /\ hashIn = <<>>
  /\ hashOut = <<>>
  /\ dpc = "idle"
  /\ duplicateGroups = <<>>
  /\ gi = 1
  /\ fetched = <<>>
  /\ mergedProduct = <<>>
  /\ runs = 0
  /\ atStart = <<>>
  /\ original = <<>>
  /\ interrupted = {}
  /\ failure = ""
  /\ tenants \in {[o \in Orgs |-> Batch(Acme, <<IF o = Acme THEN p ELSE q>>)] :
                    <<p, q>> \in {pq \in RaceProducts \X RaceProducts :
                                    SameIdentityKey(pq[1], pq[2])}}
  /\ shop = <<>>
  /\ mapper = <<>>
  /\ normalizer = <<>>

SpecRace == InitRace /\ [][NextOrgs]_vars

\* batchUpsertProducts(ps) run alone from table st, its store calls failing
\* and its matches ordered as the choices cs say
RECURSIVE RunBatch(_, _, _, _, _)
RunBatch(st, ps, cs, k, sum) ==
  IF k > Len(ps) THEN [store |-> st, summary |-> sum]
  ELSE LET p   == ps[k]
           id  == Cardinality(DOMAIN st) + 1
           out == upsertProduct(st, id, 0, p, cs[k][1],
                                Nth(Match(st, MatchConditions(p)), cs[k][2]))
       IN  RunBatch(out.store, ps, cs, k + 1, Settle(sum, p, out.res).summary)

\* the records of organization o in the order they were inserted, without the
\* columns the store and the clock give them
OrgRecords(st, o) ==
  LET ids == Ascending({id \in DOMAIN st : st[id].org_slug = o})
  IN  [i \in 1..Len(ids) |->
         [f \in DOMAIN st[ids[i]] \ {"id", "updated_at"} |-> st[ids[i]][f]]]

-----------------------------------------------------------------------------
(* connectors/shopify.ts: fetchAllProducts and syncShopifyCatalog *)

\* the pages the Admin API serves: page k ends with cursor k and reports a
\* next page unless it is the last; nodes are the page's products, normalized
PageNodes == {<<>>, <<ShopA>>, <<ShopB>>}

Upstreams(n) ==
  UNION {[1..m -> PageNodes] : m \in 1..n}

\* the page that follows the cursor of a request
ServedPage(variables) == IF variables = <<>> THEN 1 ELSE variables[1] + 1

\* every request made without the cursor
VariablesWithoutCursor(cursor) == <<>>

\* const variables = cursor ? { cursor } : {}
Variables(cursor) == IF cursor # <<>> THEN cursor ELSE <<>>

\* the store calls of the batch all succeed, the first match is taken
NoFault(ps) == [i \in 1..Len(ps) |-> <<"none", 1>>]

InitPaging ==
  /\ store = <<>>
  /\ nextId = 1
  /\ clock = 1
  /\ products = <<>>
  /\ idx = 1
  /\ summary = EmptySummary(0)
  /\ log = <<>>
  /\ firstLog = <<>>
  /\ run = 0
  /\ pc = "idle"
  /\ faults = 0
  /\ recent = <<>>
  /\ hashIn = <<>>
  /\ hashOut = <<>>
  /\ dpc = "idle"
  /\ duplicateGroups = <<>>
  /\ gi = 1
  /\ fetched = <<>>
  /\ mergedProduct = <<>>
  /\ runs = 0
  /\ atStart = <<>>
  /\ original = <<>>
  /\ interrupted = {}
  /\ failure = ""
  /\ tenants = <<>>
  /\ \E pages \in Upstreams(MaxPages) :
       shop = [pages |-> pages, pc |-> "request", cursor |-> <<>>, hasNextPage |-> TRUE,
               page |-> 0, summary |-> EmptySummary(0), trace |-> <<>>]
  /\ mapper = <<>>
  /\ normalizer = <<>>

syncFrame == <<nextId, clock, products, idx, summary, log, firstLog, run, pc, recent,
               hashVars, dedupeVars, orgVars, mapVars>>

\* await shopifyGraphQL(config, query, variables): the page comes back, or
\* the call throws and the sync ends with it
RequestPage ==
  /\ shop.pc = "request"
  /\ \/ /\ faults < MaxFaults
        /\ faults' = faults + 1
        /\ shop' = [shop EXCEPT !.pc = "thrown",
                      !.trace = Append(@, <<"request", Variables(shop.cursor)>>)]
     \/ /\ shop' = [shop EXCEPT !.pc = "yield",
                      !.page = ServedPage(Variables(shop.cursor)),
                      !.trace = Append(@, <<"request", Variables(shop.cursor)>>)]
        /\ UNCHANGED faults
  /\ UNCHANGED <<store, syncFrame>>

\* yield result.products.nodes
YieldPage ==
  /\ shop.pc = "yield"
  /\ shop' = [shop EXCEPT !.pc = "upsert", !.trace = Append(@, <<"yield", <<shop.page>>>>)]
  /\ UNCHANGED <<store, faults, syncFrame>>

\* the body of the for await loop: batchUpsertProducts of the page and the
\* sums of the summary
UpsertPage ==
  LET ps  == shop.pages[shop.page]
      out == RunBatch(store, ps, NoFault(ps), 1, EmptySummary(Len(ps)))
  IN
  /\ shop.pc = "upsert"
  /\ store' = out.store
  /\ shop' = [shop EXCEPT
       !.pc = "resume",
       !.summary = [seen |-> @.seen + out.summary.seen,
                    inserted |-> @.inserted + out.summary.inserted,
                    updated |-> @.updated + out.summary.updated,
                    unchanged |-> @.unchanged + out.summary.unchanged,
                    errors |-> @.errors + out.summary.errors,
                    error_details |-> @.error_details \o out.summary.error_details],
       !.trace = Append(@, <<"upsert", <<shop.page>>>>)]
  /\ UNCHANGED <<faults, syncFrame>>

\* the generator is resumed: hasNextPage and cursor of the page, then the
\* delay or the end of the loop
ResumeGenerator ==
  /\ shop.pc = "resume"
  /\ shop' = [shop EXCEPT
       !.hasNextPage = shop.page < Len(shop.pages),
       !.cursor = <<shop.page>>,
       !.pc = IF shop.page < Len(shop.pages) THEN "delay" ELSE "returned"]
  /\ UNCHANGED <<store, faults, syncFrame>>

\* await new Promise(resolve => setTimeout(resolve, 250))
Delay ==
  /\ shop.pc = "delay"
  /\ shop' = [shop EXCEPT !.pc = "request", !.trace = Append(@, <<"delay", <<>>>>)]
  /\ UNCHANGED <<store, faults, syncFrame>>

NextPaging == RequestPage \/ YieldPage \/ UpsertPage \/ ResumeGenerator \/ Delay

\* the awaited calls settle and the timer fires
SpecPaging == InitPaging /\ [][NextPaging]_vars /\ WF_vars(NextPaging)

-----------------------------------------------------------------------------
(* syncShopifyCatalog with pages of several products and store calls that   *)
(* may fail: the summary of each batch and the summary of the sync          *)

SyncNodes == {<<>>, <<ShopA>>, <<ShopB, ShopA>>}

\* for every product of the batch the store call that fails, if any
FaultChoices(ps) == [1..Len(ps) -> {<<f, 1>> : f \in Faults}]

InitSync ==
  /\ store = <<>>
  /\ nextId = 1
  /\ clock = 1
  /\ products = <<>>
  /\ idx = 1
  /\ summary = EmptySummary(0)
  /\ log = <<>>
  /\ firstLog = <<>>
  /\ run = 0
  /\ pc = "idle"
  /\ faults = 0
  /\ recent = <<>>
  /\ hashIn = <<>>
  /\ hashOut = <<>>
  /\ dpc = "idle"
  /\ duplicateGroups = <<>>
  /\ gi = 1
  /\ fetched = <<>>
  /\ mergedProduct = <<>>
  /\ runs = 0
  /\ atStart = <<>>
  /\ original = <<>>
  /\ interrupted = {}
  /\ failure = ""
  /\ tenants = <<>>
  /\ \E pages \in UNION {[1..m -> SyncNodes] : m \in 1..MaxPages} :
       shop = [pages |-> pages, pc |-> "request", cursor |-> <<>>, hasNextPage |-> TRUE,
               page |-> 0, summary |-> EmptySummary(0), trace |-> <<>>]
  /\ mapper = <<>>
  /\ normalizer = <<>>

\* const batchSummary = await batchUpsertProducts(normalizedProducts) and the
\* sums of lines 319-328; products and summary are the argument and the
\* result of that call
UpsertBatch ==
  /\ shop.pc = "upsert"
  /\ \E cs \in FaultChoices(shop.pages[shop.page]) :
       \E out \in {RunBatch(store, shop.pages[shop.page], cs, 1,
                             EmptySummary(Len(shop.pages[shop.page])))} :
         /\ store' = out.store
         /\ products' = shop.pages[shop.page]
         /\ summary' = out.summary
         /\ shop' = [shop EXCEPT
              !.pc = "resume",
              !.summary = [seen |-> @.seen + out.summary.seen,
                           inserted |-> @.inserted + out.summary.inserted,
                           updated |-> @.updated + out.summary.updated,
                           unchanged |-> @.unchanged + out.summary.unchanged,
                           errors |-> @.errors + out.summary.errors,
                           error_details |-> @.error_details \o out.summary.error_details],
              !.trace = Append(@, <<"upsert", <<shop.page>>>>)]
  /\ UNCHANGED <<nextId, clock, idx, log, firstLog, run, pc, faults, recent,
                 hashVars, dedupeVars, orgVars, mapVars>>

NextSync == RequestPage \/ YieldPage \/ UpsertBatch \/ ResumeGenerator \/ Delay

SpecSync == InitSync /\ [][NextSync]_vars


-----------------------------------------------------------------------------
(* lib/mapper.ts: texts, character by character.  A text is a sequence of   *)
(* tokens: a token is one character, or a run of letters and digits that    *)
(* the code never looks into ("Product", "a.jpg" stands for a URL without   *)
(* delimiter and space).  "BOM" is U+FEFF, which String.trim and \s treat   *)
(* as white space.                                                          *)

WhiteSpace == {" ", "BOM"}
Digits == {"0", "1", "2", "3", "4", "5", "6", "7", "8", "9"}
Punctuation == {"-", "!", ".", ",", "|", "$", ":", "@"}

DigitValue ==
  ("0" :> 0) @@ ("1" :> 1) @@ ("2" :> 2) @@ ("3" :> 3) @@ ("4" :> 4) @@
  ("5" :> 5) @@ ("6" :> 6) @@ ("7" :> 7) @@ ("8" :> 8) @@ ("9" :> 9)

\* String.toLowerCase / toUpperCase on the letter runs the model uses
LowerCase ==
  ("Product" :> "product") @@ ("PRODUCT" :> "product") @@
  ("Name" :> "name") @@ ("NAME" :> "name") @@ ("Title" :> "title") @@
  ("MSRP" :> "msrp") @@ ("Price" :> "price") @@ ("Cost" :> "cost") @@
  ("Images" :> "images") @@ ("Image" :> "image") @@ ("URLs" :> "urls") @@
  ("SKU" :> "sku") @@ ("Brand" :> "brand") @@ ("Category" :> "category") @@
  ("Description" :> "description") @@ ("Quantity" :> "quantity") @@
  ("Stock" :> "stock") @@ ("Currency" :> "currency") @@
  ("Condition" :> "condition") @@ ("Count" :> "count") @@ ("Sizes" :> "sizes") @@
  ("Code" :> "code") @@ ("Widget" :> "widget") @@ ("Gadget" :> "gadget") @@
  ("Thing" :> "thing") @@ ("AB" :> "ab") @@
  ("New" :> "new") @@ ("Used" :> "used") @@ ("Pre" :> "pre") @@
  ("Renewed" :> "renewed") @@ ("Open" :> "open")

UpperCase ==
  ("Widget" :> "WIDGET") @@ ("Gadget" :> "GADGET") @@ ("Thing" :> "THING") @@
  ("ab" :> "AB") @@ ("a.jpg" :> "A.JPG") @@ ("b.jpg" :> "B.JPG")

toLowerCase(t) ==
  [i \in 1..Len(t) |-> IF t[i] \in DOMAIN LowerCase THEN LowerCase[t[i]] ELSE t[i]]

toUpperCase(t) ==
  [i \in 1..Len(t) |-> IF t[i] \in DOMAIN UpperCase THEN UpperCase[t[i]] ELSE t[i]]

RECURSIVE TrimStart(_)
TrimStart(t) ==
  IF t # <<>> /\ Head(t) \in WhiteSpace THEN TrimStart(Tail(t)) ELSE t

RECURSIVE TrimEnd(_)
TrimEnd(t) ==
  IF t # <<>> /\ t[Len(t)] \in WhiteSpace THEN TrimEnd(SubSeq(t, 1, Len(t) - 1)) ELSE t

\* String.trim()
Trim(t) == TrimEnd(TrimStart(t))

\* replace(/\s+/g, to): every run of white space becomes the one token `to`
RECURSIVE ReplaceSpaceRuns(_, _)
ReplaceSpaceRuns(t, to) ==
  IF t = <<>> THEN <<>>
  ELSE IF Head(t) \in WhiteSpace
       THEN <<to>> \o ReplaceSpaceRuns(TrimStart(t), to)
       ELSE <<Head(t)>> \o ReplaceSpaceRuns(Tail(t), to)

\* replace(/_+/g, '_')
RECURSIVE CollapseUnderscores(_)
CollapseUnderscores(t) ==
  IF t = <<>> THEN <<>>
  ELSE IF Head(t) = "_" /\ Len(t) > 1 /\ t[2] = "_"
       THEN CollapseUnderscores(Tail(t))
       ELSE <<Head(t)>> \o CollapseUnderscores(Tail(t))

\* replace(/^_+|_+$/g, '')
RECURSIVE StripUnderscores(_)
StripUnderscores(t) ==
  IF t # <<>> /\ Head(t) = "_" THEN StripUnderscores(Tail(t))
  ELSE IF t # <<>> /\ t[Len(t)] = "_" THEN StripUnderscores(SubSeq(t, 1, Len(t) - 1))
  ELSE t

\* replace(/[...]/g, ''): the characters of `drop` removed
Without(t, drop) == SelectSeq(t, LAMBDA c : c \notin drop)

\* String.includes(c)
Includes(t, c) == \E i \in 1..Len(t) : t[i] = c

\* String.split(delimiter), the delimiter one character
RECURSIVE SplitText(_, _)
SplitText(t, d) ==
  IF ~Includes(t, d) THEN <<t>>
  ELSE LET i == CHOOSE j \in 1..Len(t) : t[j] = d /\ \A k \in 1..(j - 1) : t[k] # d
       IN  <<SubSeq(t, 1, i - 1)>> \o SplitText(SubSeq(t, i + 1, Len(t)), d)

\* Array.join(delimiter) of texts
RECURSIVE JoinTexts(_, _)
JoinTexts(a, d) ==
  IF a = <<>> THEN <<>>
  ELSE IF Len(a) = 1 THEN a[1]
  ELSE a[1] \o <<d>> \o JoinTexts(Tail(a), d)

\* the text as one string, for a property name
RECURSIVE Chars(_)
Chars(t) == IF t = <<>> THEN "" ELSE Head(t) \o Chars(Tail(t))

\* the leading characters of t that are in the class cs
RECURSIVE TakeWhile(_, _)
TakeWhile(t, cs) ==
  IF t # <<>> /\ Head(t) \in cs THEN <<Head(t)>> \o TakeWhile(Tail(t), cs) ELSE <<>>

DropFirst(t, n) == SubSeq(t, n + 1, Len(t))

-----------------------------------------------------------------------------
(* lib/mapper.ts: values.  A cell is a text; a transform makes of it a text, *)
(* a number, an array of texts or undefined                                  *)

Text(t) == [kind |-> "string", v |-> t]
Number(n) == [kind |-> "number", v |-> n]
Array(a) == [kind |-> "array", v |-> a]
Undefined == [kind |-> "undefined", v |-> <<>>]
NaN == [nan |-> TRUE]

RECURSIVE DigitsValue(_)
DigitsValue(t) ==
  IF t = <<>> THEN 0 ELSE 10 * DigitsValue(SubSeq(t, 1, Len(t) - 1)) + DigitValue[t[Len(t)]]

RECURSIVE StripZeros(_)
StripZeros(t) ==
  IF t # <<>> /\ t[Len(t)] = "0" THEN StripZeros(SubSeq(t, 1, Len(t) - 1)) ELSE t

\* parseFloat(text): the longest prefix that is a decimal literal (the texts
\* of the model hold no exponent and no "Infinity"); a number is its sign,
\* its integer part and its decimals without trailing zeros
parseFloat(text) ==
  LET t == TrimStart(text)
      signed == t # <<>> /\ Head(t) \in {"-", "+"}
      body == IF signed THEN Tail(t) ELSE t
      whole == TakeWhile(body, Digits)
      rest == DropFirst(body, Len(whole))
      decimals == IF rest # <<>> /\ Head(rest) = "." THEN TakeWhile(Tail(rest), Digits) ELSE <<>>
  IN  IF whole = <<>> /\ decimals = <<>> THEN NaN
      ELSE [nan |-> FALSE,
            negative |-> signed /\ Head(t) = "-",
            whole |-> DigitsValue(whole),
            decimals |-> StripZeros(decimals)]

RECURSIVE NatText(_)
NatText(n) ==
  IF n < 10 THEN <<CHOOSE d \in Digits : DigitValue[d] = n>>
  ELSE NatText(n \div 10) \o <<CHOOSE d \in Digits : DigitValue[d] = n % 10>>

\* String(value)
String(value) ==
  CASE value.kind = "string" -> value.v
    [] value.kind = "number" ->
         (IF value.v.negative /\ (value.v.whole # 0 \/ value.v.decimals # <<>>)
          THEN <<"-">> ELSE <<>>)
         \o NatText(value.v.whole)
         \o (IF value.v.decimals = <<>> THEN <<>> ELSE <<".">> \o value.v.decimals)
    [] value.kind = "array" -> JoinTexts(value.v, ",")
    [] OTHER -> <<"undefined">>

-----------------------------------------------------------------------------
(* lib/mapper.ts: the mapper *)

CORE_FIELDS ==
  {"title", "brand", "category", "price", "currency", "quantity", "image_urls",
   "sku", "global_id_type", "global_id_value", "merchant_product_id",
   "merchant_variant_id", "condition", "description"}

normalizeHeader(header) ==
  LET noBom == IF header # <<>> /\ Head(header) = "BOM" THEN Tail(header) ELSE header
  IN  toLowerCase(ReplaceSpaceRuns(Trim(noBom), " "))

normalizeAttributeKey(key) ==
  LET lower == toLowerCase(ReplaceSpaceRuns(Trim(key), " "))
      alnum == [i \in 1..Len(lower) |->
                  IF lower[i] \in Punctuation THEN "_" ELSE lower[i]]
  IN  StripUnderscores(CollapseUnderscores(ReplaceSpaceRuns(alnum, "_")))

\* map(s => s.trim()).filter(Boolean) on the pieces of a split
TrimmedPieces(pieces) ==
  SelectSeq([i \in 1..Len(pieces) |-> Trim(pieces[i])], LAMBDA u : u # <<>>)

autoSplitImageUrls(value) ==
  IF value = <<>> THEN <<>>
  ELSE IF Includes(value, "|") THEN TrimmedPieces(SplitText(value, "|"))
  ELSE IF Includes(value, ",") THEN TrimmedPieces(SplitText(value, ","))
  ELSE TrimmedPieces(<<value>>)

\* a MappingRule; transform is <<>> when the rule has none
Rule(sourceField, internalField, transform) ==
  [sourceField |-> sourceField, internalField |-> internalField, transform |-> transform]

\* a TransformSpec; args holds the arguments that are given and truthy ('' and
\* 0 count as missing for every guard and || of applyTransform)
Transform(op, args) == [op |-> op, args |-> args]

NoArgs == [a \in {} |-> <<>>]

\* transform.args?.name || fallback
ArgOr(transform, name, fallback) ==
  IF name \in DOMAIN transform.args THEN transform.args[name] ELSE fallback

\* new RegExp(pattern, flags) throws a SyntaxError on a pattern with an
\* unmatched parenthesis and on an unknown or repeated flag
RECURSIVE Depths(_, _)
Depths(pattern, depth) ==
  IF pattern = <<>> THEN <<depth>>
  ELSE <<depth>> \o Depths(Tail(pattern),
                           CASE Head(pattern) = "(" -> depth + 1
                             [] Head(pattern) = ")" -> depth - 1
                             [] OTHER -> depth)

RegExpFlags == {"d", "g", "i", "m", "s", "u", "y"}

Compiles(pattern, flags) ==
  LET depths == Depths(pattern, 0)
  IN  /\ \A i \in 1..Len(depths) : depths[i] >= 0
      /\ depths[Len(depths)] = 0
      /\ \A i \in 1..Len(flags) : flags[i] \in RegExpFlags
      /\ \A i, j \in 1..Len(flags) : i # j => flags[i] # flags[j]

\* String.match(regex) for the patterns of the model, a digit run with or
\* without capturing parentheses around it: the first run of digits of the
\* text is the match and the capture of every group; <<>> when none
Captures(pattern) == Len(SelectSeq(pattern, LAMBDA c : c = "("))

RECURSIVE FirstDigitRun(_)
FirstDigitRun(text) ==
  IF text = <<>> THEN <<>>
  ELSE IF Head(text) \in Digits THEN TakeWhile(text, Digits)
  ELSE FirstDigitRun(Tail(text))

Zero == [nan |-> FALSE, negative |-> FALSE, whole |-> 0, decimals |-> <<>>]

SyntaxError == [kind |-> "thrown", v |-> <<"SyntaxError">>]

\* case 'regex'
applyTransformRegex(value, transform) ==
  IF ArgOr(transform, "pattern", <<>>) = <<>> THEN value
  ELSE IF ~Compiles(transform.args.pattern, ArgOr(transform, "flags", <<>>)) THEN SyntaxError
  ELSE LET match == FirstDigitRun(String(value))
           group == ArgOr(transform, "group", 0)
       IN  IF match = <<>> THEN value
           ELSE IF group = 0 \/ group <= Captures(transform.args.pattern) THEN Text(match)
           ELSE Undefined

applyTransform(value, transform) ==
  CASE transform.op = "trim" -> Text(Trim(String(value)))
    [] transform.op = "lower" -> Text(toLowerCase(String(value)))
    [] transform.op = "upper" -> Text(toUpperCase(String(value)))
    [] transform.op = "regex" -> applyTransformRegex(value, transform)
    [] transform.op = "split" ->
         Array(TrimmedPieces(SplitText(String(value), ArgOr(transform, "delimiter", ","))))
    [] transform.op = "join" ->
         IF value.kind = "array"
         THEN Text(JoinTexts(value.v, ArgOr(transform, "delimiter", ",")))
         ELSE Text(String(value))
    [] transform.op = "to_number" ->
         LET num == parseFloat(SelectSeq(String(value), LAMBDA c : c \in Digits \cup {".", "-"}))
         IN  Number(IF num.nan THEN Zero ELSE num)
    [] OTHER -> value

\* the mutant of normalizeCondition: the value is compared as it was written
normalizeConditionAsWritten(value) ==
  LET normalized == value
  IN  CASE normalized \in {<<"new">>, <<"brand", " ", "new">>} -> <<"new">>
        [] normalized \in {<<"used">>, <<"pre", "-", "owned">>} -> <<"used">>
        [] normalized \in {<<"refurbished">>, <<"renewed">>} -> <<"refurbished">>
        [] normalized \in {<<"open", " ", "box">>, <<"open", "-", "box">>, <<"openbox">>}
             -> <<"open_box">>
        [] OTHER -> <<"other">>

normalizeCondition(value) ==
  LET normalized == Trim(toLowerCase(value))
  IN  CASE normalized \in {<<"new">>, <<"brand", " ", "new">>} -> <<"new">>
        [] normalized \in {<<"used">>, <<"pre", "-", "owned">>} -> <<"used">>
        [] normalized \in {<<"refurbished">>, <<"renewed">>} -> <<"refurbished">>
        [] normalized \in {<<"open", " ", "box">>, <<"open", "-", "box">>, <<"openbox">>}
             -> <<"open_box">>
        [] OTHER -> <<"other">>

\* /^-?[\d,]+(\.\d+)?$/.test(value)
isNumericString(value) ==
  LET body == IF value # <<>> /\ Head(value) = "-" THEN Tail(value) ELSE value
      whole == TakeWhile(body, Digits \cup {","})
      rest == DropFirst(body, Len(whole))
  IN  /\ whole # <<>>
      /\ \/ rest = <<>>
         \/ /\ Head(rest) = "."
            /\ Len(rest) >= 2
            /\ \A i \in 2..Len(rest) : rest[i] \in Digits

\* loadMappingRules: the rows of field_mappings for the organization, [] on
\* an error of the store
loadMappingRules(stored) == IF stored.error THEN <<>> ELSE stored.data

getDefaultMappingRules ==
  << Rule(<<"Product", " ", "Name">>, <<"title">>, <<>>),
     Rule(<<"Title">>, <<"title">>, <<>>),
     Rule(<<"Name">>, <<"title">>, <<>>),
     Rule(<<"MSRP">>, <<"price">>, <<Transform("to_number", NoArgs)>>),
     Rule(<<"Price">>, <<"price">>, <<Transform("to_number", NoArgs)>>),
     Rule(<<"Cost">>, <<"price">>, <<Transform("to_number", NoArgs)>>),
     Rule(<<"Images">>, <<"image_urls">>, <<Transform("split", [delimiter |-> "|"])>>),
     Rule(<<"Image", " ", "URLs">>, <<"image_urls">>, <<Transform("split", [delimiter |-> "|"])>>),
     Rule(<<"SKU">>, <<"sku">>, <<>>),
     Rule(<<"Brand">>, <<"brand">>, <<>>),
     Rule(<<"Category">>, <<"category">>, <<>>),
     Rule(<<"Description">>, <<"description">>, <<>>),
     Rule(<<"Quantity">>, <<"quantity">>, <<Transform("to_number", NoArgs)>>),
     Rule(<<"Stock">>, <<"quantity">>, <<Transform("to_number", NoArgs)>>),
     Rule(<<"Currency">>, <<"currency">>, <<>>),
     Rule(<<"Condition">>, <<"condition">>, <<>>) >>

\* rawRow[header] and Object.keys(rawRow): a raw row is the sequence of its
\* cells <<header, value>>, headers distinct
Headers(rawRow) == {rawRow[i][1] : i \in 1..Len(rawRow)}
Cell(rawRow, header) == rawRow[CHOOSE i \in 1..Len(rawRow) : rawRow[i][1] = header][2]

\* the mutant of HeaderFor: only a header written as the name is found
HeaderForAsWritten(rawRow, name) ==
  LET at == {i \in 1..Len(rawRow) : rawRow[i][1] = name}
  IN  IF at = {} THEN <<>>
      ELSE <<rawRow[CHOOSE i \in at : \A j \in at : j <= i][1]>>

\* normalizedHeaders.get(name): the last header of the row that normalizes
\* to name, <<>> for undefined
HeaderFor(rawRow, name) ==
  LET at == {i \in 1..Len(rawRow) : normalizeHeader(rawRow[i][1]) = name}
  IN  IF at = {} THEN <<>>
      ELSE <<rawRow[CHOOSE i \in at : \A j \in at : j <= i][1]>>

\* product[field] = value
SetField(product, field, value) ==
  [f \in DOMAIN product \cup {field} |-> IF f = field THEN value ELSE product[f]]

\* lines 228-242: the special handling of image_urls and of condition
Special(rule, transformed) ==
  IF rule.internalField = <<"image_urls">>
  THEN IF transformed.kind = "array"
       THEN Array(SelectSeq(transformed.v, LAMBDA u : u # <<>>))
       ELSE Array(autoSplitImageUrls(String(transformed)))
  ELSE IF rule.internalField = <<"condition">>
  THEN Text(normalizeCondition(String(transformed)))
  ELSE transformed

\* lines 244-261: the value is set on the core field or on the attribute
SetMapped(m, rule, mappedValue) ==
  IF Chars(rule.internalField) \in CORE_FIELDS
  THEN [m EXCEPT !.product = SetField(@, Chars(rule.internalField), mappedValue)]
  ELSE IF Head(rule.internalField) = "attributes."
  THEN [m EXCEPT !.product.attributes =
                   AttrSet(@, Chars(Tail(rule.internalField)), mappedValue)]
  ELSE [m EXCEPT !.product.attributes =
                   AttrSet(@, Chars(rule.internalField), mappedValue)]

\* lines 218-262: the transform of the rule, the special handling, the
\* assignment; a transform that throws ends the call
MapValue(m, rule, transformed) ==
  IF transformed.kind = "thrown" THEN [m EXCEPT !.threw = TRUE]
  ELSE SetMapped(m, rule, Special(rule, transformed))

\* lines 209-263: the rule found its header in the row
ApplyTo(m, rule, originalHeader, sourceValue) ==
  IF sourceValue = <<>> THEN [m EXCEPT !.mappedHeaders = @ \cup {originalHeader}]
  ELSE MapValue([m EXCEPT !.mappedHeaders = @ \cup {originalHeader}], rule,
                IF rule.transform # <<>>
                THEN applyTransform(Text(sourceValue), rule.transform[1])
                ELSE Text(sourceValue))

\* lines 207-209: found is what normalizedHeaders.get returned
ApplyFound(m, rawRow, rule, found) ==
  IF found = <<>> \/ found[1] = <<>> THEN m
  ELSE ApplyTo(m, rule, found[1], Cell(rawRow, found[1]))

\* the body of the loop over the rules for one rule; m is the product being
\* built, the headers mapped so far and whether a transform threw
ApplyRule(m, rawRow, rule) ==
  ApplyFound(m, rawRow, rule, HeaderFor(rawRow, normalizeHeader(rule.sourceField)))

\* the mutant of ApplyRules: the rules are applied from the last to the first
RECURSIVE ApplyRulesBackwards(_, _, _)
ApplyRulesBackwards(m, rawRow, rules) ==
  IF rules = <<>> \/ m.threw THEN m
  ELSE ApplyRulesBackwards(ApplyRule(m, rawRow, rules[Len(rules)]), rawRow,
                           SubSeq(rules, 1, Len(rules) - 1))

RECURSIVE ApplyRules(_, _, _)
ApplyRules(m, rawRow, rules) ==
  IF rules = <<>> \/ m.threw THEN m
  ELSE ApplyRules(ApplyRule(m, rawRow, Head(rules)), rawRow, Tail(rules))

\* the coercion of an unmapped cell
Coerced(value) ==
  IF isNumericString(value)
  THEN LET numValue == parseFloat(Without(value, {",", "$"}))
       IN  IF numValue.nan THEN Text(value) ELSE Number(numValue)
  ELSE Text(value)

\* the loop over the unmapped cells, in the order of the row
RECURSIVE Unmapped(_, _, _)
Unmapped(product, cells, mappedHeaders) ==
  IF cells = <<>> THEN product
  ELSE LET originalHeader == Head(cells)[1]
           value == Head(cells)[2]
           normalizedKey == Chars(normalizeAttributeKey(originalHeader))
       IN  Unmapped(IF originalHeader \notin mappedHeaders /\ value # <<>>
                    THEN [product EXCEPT !.attributes = AttrSet(@, normalizedKey, Coerced(value))]
                    ELSE product,
                    Tail(cells), mappedHeaders)

\* lines 266-289: the unmapped cells are added and the product is returned,
\* unless a transform threw
Finish(m, rawRow) ==
  IF m.threw THEN [threw |-> TRUE, error |-> "SyntaxError"]
  ELSE [threw |-> FALSE, product |-> Unmapped(m.product, rawRow, m.mappedHeaders)]

\* mapCsvRowToProduct once the rules are known: the product, or the error a
\* transform threw
mapCsvRowToProduct(rawRow, orgSlug, rules) ==
  Finish(ApplyRules([product |-> [org_slug |-> orgSlug, attributes |-> <<>>,
                                  source |-> "csv", source_updated_at |-> "now"],
                     mappedHeaders |-> {}, threw |-> FALSE],
                    rawRow, rules),
         rawRow)

-----------------------------------------------------------------------------
(* mapCsvRowToProduct as a state machine: a call with a raw row, with or    *)
(* without a rule list, against a rule store                                *)

\* the texts of at most n characters of cs
Texts(cs, n) == UNION {[1..k -> cs] : k \in 0..n}

\* the sequences without repetition of at most n elements of S
Arrangements(S, n) ==
  {s \in UNION {[1..k -> S] : k \in 0..n} :
     \A i, j \in 1..Len(s) : i # j => s[i] # s[j]}

ProductName == <<"Product", " ", "Name">>

\* unmapped cells under the header 'Sizes'
NumberChars == {"1", ",", ".", "-", "$"}
CoercionCalls ==
  {[rawRow |-> << <<<<"Sizes">>, v>> >>, mappingRules |-> <<rules>>,
    stored |-> [error |-> FALSE, data |-> <<>>]] :
     v \in Texts(NumberChars, MaxText), rules \in {<<>>, getDefaultMappingRules}}

\* cells under the header 'Images', with a rule without transform and with
\* the default rules
ImageChars == {"a.jpg", "b.jpg", "|", ",", " "}
ImageRule == Rule(<<"Images">>, <<"image_urls">>, <<>>)
ImageCalls ==
  {[rawRow |-> << <<<<"Images">>, v>> >>, mappingRules |-> <<rules>>,
    stored |-> [error |-> FALSE, data |-> <<>>]] :
     v \in Texts(ImageChars, MaxText), rules \in {<<ImageRule>>, getDefaultMappingRules}}

\* cells under the header 'Code', with one rule that carries a transform
CodeChars == {"ab", "1", "-", " "}
Patterns == {<<"[0-9]+">>, <<"(", "[0-9]+", ")">>, <<"(", "[0-9]+">>, <<"[0-9]+", ")">>}
RegexArgs ==
  {[pattern |-> p] : p \in Patterns}
    \cup {[pattern |-> p, flags |-> f] : p \in Patterns, f \in {<<"i">>, <<"x">>}}
    \cup {[pattern |-> p, group |-> g] : p \in Patterns, g \in {1, 2}}
Transforms ==
  {Transform(op, NoArgs) : op \in {"trim", "lower", "upper", "regex", "split", "join",
                                   "to_number", "slugify"}}
    \cup {Transform("split", [delimiter |-> "-"])}
    \cup {Transform("regex", args) : args \in RegexArgs}
TransformCalls ==
  {[rawRow |-> << <<<<"Code">>, v>> >>,
    mappingRules |-> << <<Rule(<<"Code">>, <<"title">>, <<t>>)>> >>,
    stored |-> [error |-> FALSE, data |-> <<>>]] :
     v \in Texts(CodeChars, MaxText), t \in Transforms}

\* rows of several cells, with the default rules, and without a rule list
\* against a store that fails, holds no rule or holds a rule of its own
Cells ==
  { <<ProductName, <<"Widget">>>>,
    <<<<"BOM", " ", "PRODUCT", " ", " ", "NAME", " ">>, <<"Gadget">>>>,
    <<<<" ", "Product", " ", "Name", " ">>, <<"Gizmo">>>>,
    <<<<"Title">>, <<"Thing">>>>,
    <<<<"Count">>, <<"1">>>>,
    <<<<"MSRP">>, <<"1">>>>,
    <<<<"Price">>, <<>>>>,
    <<<<"Cost">>, <<"2">>>> }
Rows == {r \in Arrangements(Cells, MaxCells) : r # <<>>}
StoredRule == Rule(<<"Title">>, <<"attributes.", "name">>, <<>>)
RuleStores ==
  {[error |-> TRUE, data |-> <<>>], [error |-> FALSE, data |-> <<>>],
   [error |-> FALSE, data |-> <<StoredRule>>]}
RowCalls ==
  {[rawRow |-> r, mappingRules |-> <<>>, stored |-> s] : r \in Rows, s \in RuleStores}
    \cup {[rawRow |-> r, mappingRules |-> <<getDefaultMappingRules>>,
           stored |-> [error |-> FALSE, data |-> <<>>]] : r \in Rows}

\* cells under the header 'Condition', with the default rules: phrases of
\* several words, and the conditions named by one word
ConditionChars == {"New", "brand", "Used", "Pre", "owned", "Open", "box", " ", "-"}
ConditionWords == {"refurbished", "Renewed", "openbox"}
ConditionTexts ==
  Texts(ConditionChars, MaxText)
    \cup UNION {Texts({w, " "}, MaxText) : w \in ConditionWords}
ConditionRule == Rule(<<"Condition">>, <<"condition">>, <<>>)
ConditionCalls ==
  {[rawRow |-> << <<<<"Condition">>, v>> >>, mappingRules |-> <<getDefaultMappingRules>>,
    stored |-> [error |-> FALSE, data |-> <<>>]] : v \in ConditionTexts}

Calls ==
  CoercionCalls \cup ImageCalls \cup TransformCalls \cup RowCalls \cup ConditionCalls

InitMapper ==
  /\ store = <<>>
  /\ nextId = 1
  /\ clock = 1
  /\ products = <<>>
  /\ idx = 1
  /\ summary = EmptySummary(0)
  /\ log = <<>>
  /\ firstLog = <<>>
  /\ run = 0
  /\ pc = "idle"
  /\ faults = 0
  /\ recent = <<>>
  /\ hashIn = <<>>
  /\ hashOut = <<>>
  /\ dpc = "idle"
  /\ duplicateGroups = <<>>
  /\ gi = 1
  /\ fetched = <<>>
  /\ mergedProduct = <<>>
  /\ runs = 0
  /\ atStart = <<>>
  /\ original = <<>>
  /\ interrupted = {}
  /\ failure = ""
  /\ tenants = <<>>
  /\ shop = <<>>
  /\ normalizer = <<>>
  /\ \E call \in Calls :
       mapper = [rawRow |-> call.rawRow, orgSlug |-> Acme,
                 mappingRules |-> call.mappingRules, stored |-> call.stored,
                 rules |-> call.mappingRules, pc |-> "called", out |-> <<>>]

mapFrame == <<engineVars, hashVars, dedupeVars, orgVars, syncVars, normalizer>>

\* const rules = mappingRules || await loadMappingRules(orgSlug), without a
\* rule list
LoadRules ==
  /\ mapper.pc = "called"
  /\ mapper.mappingRules = <<>>
  /\ mapper' = [mapper EXCEPT !.rules = <<loadMappingRules(mapper.stored)>>,
                             !.pc = "loaded"]
  /\ UNCHANGED mapFrame

\* the rest of mapCsvRowToProduct: the product is returned, or the error of
\* a transform leaves the call
MapRow ==
  /\ \/ mapper.pc = "called" /\ mapper.mappingRules # <<>>
     \/ mapper.pc = "loaded"
  /\ \E out \in {mapCsvRowToProduct(mapper.rawRow, mapper.orgSlug, mapper.rules[1])} :
       mapper' = [mapper EXCEPT !.out = out,
                                !.pc = IF out.threw THEN "thrown" ELSE "returned"]
  /\ UNCHANGED mapFrame

NextMapper == LoadRules \/ MapRow

SpecMapper == InitMapper /\ [][NextMapper]_vars

-----------------------------------------------------------------------------
(* connectors/shopify.ts: normalizeShopifyProduct.  A fetched product holds *)
(* its variants and images; a null inventoryQuantity, an empty sku and an   *)
(* empty vendor are fields that are not in the DOMAIN                       *)

Var2 == <<"gid", ":", "//shopify/ProductVariant/2">>

\* Number(price) of the price texts the upstream serves
PriceValue == ("0.00" :> 0) @@ ("10.00" :> 10)

\* the variants the upstream may serve for a product
VariantNodes ==
  {[id |-> Var1, sku |-> Sku1, price |-> "10.00", inventoryQuantity |-> q] : q \in 0..2}
    \cup {[id |-> Var2, price |-> "0.00", inventoryQuantity |-> q] : q \in 0..2}
    \cup {[id |-> Var1, sku |-> Sku1, price |-> "10.00"], [id |-> Var2, price |-> "0.00"]}

ShopifyProducts ==
  {[id |-> Gid1, title |-> "T1", handle |-> "t1", images |-> urls, variants |-> nodes] :
     urls \in {<<>>, <<"img1.jpg">>}, nodes \in SeqsUpTo(VariantNodes, MaxVariants)}
    \cup {[id |-> Gid1, title |-> "T1", handle |-> "t1", vendor |-> "V1", images |-> <<>>,
            variants |-> nodes] : nodes \in SeqsUpTo(VariantNodes, MaxVariants)}

\* variant.inventoryQuantity || 0
QuantityOrZero(variant) ==
  IF Has(variant, "inventoryQuantity") THEN variant.inventoryQuantity ELSE 0

\* product.variants.nodes.reduce((sum, variant) => sum + ..., 0)
RECURSIVE totalQuantity(_)
totalQuantity(nodes) ==
  IF nodes = <<>> THEN 0
  ELSE totalQuantity(SubSeq(nodes, 1, Len(nodes) - 1)) + QuantityOrZero(nodes[Len(nodes)])

\* quantity: totalQuantity > 0 ? totalQuantity : undefined
QuantityOf(total) == IF total > 0 THEN [quantity |-> total] ELSE <<>>

\* the entry of attributes.variants for a variant
NormalizedVariant(variant) ==
  [f \in {"id", "sku", "price"}
          \cup (IF Has(variant, "inventoryQuantity") THEN {"quantity"} ELSE {}) |->
     CASE f = "id" -> variant.id
       [] f = "sku" -> IF Has(variant, "sku") THEN variant.sku ELSE <<>>
       [] f = "price" -> PriceValue[variant.price]
       [] OTHER -> variant.inventoryQuantity]

\* the fields of the normalized product that are defined
Defined(fields) ==
  [f \in {g \in DOMAIN fields : fields[g] # <<>>} |-> fields[f][1]]

normalizeShopifyProduct(product, orgSlug, shopCurrency) ==
  LET nodes == product.variants
      isSingleVariant == Len(nodes) = 1
  IN  Defined(
        [org_slug |-> <<orgSlug>>,
         title |-> <<product.title>>,
         brand |-> IF Has(product, "vendor") THEN <<product.vendor>> ELSE <<>>,
         price |-> IF nodes # <<>> /\ PriceValue[nodes[1].price] # 0
                   THEN <<PriceValue[nodes[1].price]>> ELSE <<>>,
         currency |-> <<shopCurrency>>,
         image_urls |-> IF product.images # <<>> THEN <<product.images>> ELSE <<>>,
         sku |-> IF isSingleVariant /\ Has(nodes[1], "sku") THEN <<nodes[1].sku>> ELSE <<>>,
         merchant_product_id |-> <<product.id>>,
         merchant_variant_id |-> IF isSingleVariant THEN <<nodes[1].id>> ELSE <<>>,
         attributes |->
           << << <<"handle", product.handle>>,
                 <<"variants", [i \in 1..Len(nodes) |-> NormalizedVariant(nodes[i])]>> >> >>,
         source |-> <<"shopify">>])
      @@ QuantityOf(totalQuantity(nodes))

InitNormalizer ==
  /\ store = <<>>
  /\ nextId = 1
  /\ clock = 1
  /\ products = <<>>
  /\ idx = 1
  /\ summary = EmptySummary(0)
  /\ log = <<>>
  /\ firstLog = <<>>
  /\ run = 0
  /\ pc = "idle"
  /\ faults = 0
  /\ recent = <<>>
  /\ hashIn = <<>>
  /\ hashOut = <<>>
  /\ dpc = "idle"
  /\ duplicateGroups = <<>>
  /\ gi = 1
  /\ fetched = <<>>
  /\ mergedProduct = <<>>
  /\ runs = 0
  /\ atStart = <<>>
  /\ original = <<>>
  /\ interrupted = {}
  /\ failure = ""
  /\ tenants = <<>>
  /\ shop = <<>>
  /\ mapper = <<>>
  /\ \E product \in ShopifyProducts :
       normalizer = [product |-> product, pc |-> "fetched", out |-> <<>>]

\* products.map(product => normalizeShopifyProduct(product, orgSlug, ...))
Normalize ==
  /\ normalizer.pc = "fetched"
  /\ normalizer' = [normalizer EXCEPT
                      !.out = normalizeShopifyProduct(normalizer.product, Acme, "USD"),
                      !.pc = "normalized"]
  /\ UNCHANGED <<engineVars, hashVars, dedupeVars, orgVars, syncVars, mapper>>

NextNormalizer == Normalize

SpecNormalizer == InitNormalizer /\ [][NextNormalizer]_vars

-----------------------------------------------------------------------------
(* Properties of the upsert engine *)

Last == recent[Len(recent)]
Prev == recent[1]
Called == recent # <<>>
CalledTwice == Len(recent) = 2

\* the row the latest call wrote or matched, as the table holds it now
Post == store[Last.res.productId]
AttributesOf(row) == IF Has(row, "attributes") THEN row.attributes ELSE <<>>

\* the same product was upserted twice in a row and both calls completed
SameProductTwice ==
  /\ CalledTwice
  /\ Prev.product = Last.product
  /\ ~Prev.res.threw
  /\ ~Last.res.threw

\* C1 as claimed: a second upsert of the same product, with or without an
\* identity key and whatever the table holds, returns 'unchanged' and writes
\* nothing.
C1_IdempotentForEveryProduct ==
  SameProductTwice => Last.res.action = "unchanged" /\ Last.res.write = "none"

\* C1, amended: a second upsert of the same product returns 'unchanged' and
\* writes nothing when the product has an identity key and exactly one stored
\* record matches that key.
C1_IdempotentWithUniqueKey ==
  (SameProductTwice /\ Last.columns # {} /\ Cardinality(Last.found) = 1)
    => Last.res.action = "unchanged" /\ Last.res.write = "none"

C1_Witness ==
  /\ SameProductTwice
  /\ Last.columns # {}
  /\ Cardinality(Last.found) = 1
  /\ Prev.res.write \in {"insert", "update"}
  /\ Last.res.action = "unchanged"

\* rows a lookup on the columns cols with the values of row r would match
SameKey(r, cols) ==
  {id \in DOMAIN store :
     \A f \in cols : Truthy(r, f) /\ Has(store[id], f) /\ store[id][f] = r[f]}

ShopifyKey == {"org_slug", "merchant_product_id", "source"}
IdPairKey == {"org_slug", "merchant_product_id", "merchant_variant_id"}
SkuKey == {"org_slug", "sku"}

\* C2 as claimed: each of the three identity-key lookups matches at most one
\* stored record, whatever its values.
C2_OneRecordPerIdentityKey ==
  \A id \in DOMAIN store :
    /\ IsShopify(store[id]) => Cardinality(SameKey(store[id], ShopifyKey)) <= 1
    /\ Cardinality(SameKey(store[id], IdPairKey)) <= 1
    /\ Cardinality(SameKey(store[id], SkuKey)) <= 1

\* C2, amended: the external-catalog lookup (org, merchant_product_id,
\* source = external-catalog) matches at most one stored record; the ID-pair and
\* the sku lookups may match several.
C2_OneRecordPerShopifyKey ==
  \A id \in DOMAIN store :
    IsShopify(store[id]) => Cardinality(SameKey(store[id], ShopifyKey)) <= 1

\* an external-catalog record stored beside a csv record of the same
\* merchant_product_id, after an external-catalog upsert
C2_Witness ==
  /\ Called
  /\ IsShopify(Last.product)
  /\ ~Last.res.threw
  /\ \E i, j \in DOMAIN store :
       /\ i # j
       /\ IsShopify(store[i])
       /\ ~IsShopify(store[j])
       /\ store[i].merchant_product_id = Last.product.merchant_product_id
       /\ Has(store[j], "merchant_product_id")
       /\ store[j].merchant_product_id = store[i].merchant_product_id

\* the product has an identity key
HasIdentity(p) ==
  \/ IsShopify(p)
  \/ Has(p, "merchant_product_id") /\ Has(p, "merchant_variant_id")
  \/ Has(p, "sku")

Share(p, q, f) == Has(p, f) /\ Has(q, f) /\ p[f] = q[f]

\* every product has an identity key, no two share an id or a sku
DistinctIdentities(list) ==
  /\ \A i \in 1..Len(list) : HasIdentity(list[i])
  /\ \A i, j \in 1..Len(list) :
       i # j => /\ ~Share(list[i], list[j], "merchant_product_id")
                /\ ~Share(list[i], list[j], "sku")

\* some product of the list failed in the first run
SomeFailedFirst == \E i \in 1..Len(firstLog) : firstLog[i] = "error"

\* the re-run classifies as 'unchanged' every product the first run wrote
RerunLeavesWrittenUnchanged ==
  \A i \in 1..Len(log) :
    (firstLog[i] # "error" /\ log[i] # "error") => log[i] = "unchanged"

\* C3 as claimed: on the second run of any list of which some product failed, every product written in the
\* first run is 'unchanged' (not inserted or updated again); only the products
\* that failed are written.
C3_RerunOfAnyList ==
  (run = 2 /\ SomeFailedFirst) => RerunLeavesWrittenUnchanged

\* C3, amended: the same for a list whose products each have an identity key
\* and share no merchant_product_id and no sku with one another, on a table
\* that holds no record with an id or sku of the list.
C3_RerunOfDistinctProducts ==
  (run = 2 /\ SomeFailedFirst /\ DistinctIdentities(products))
    => RerunLeavesWrittenUnchanged

C3_Witness ==
  /\ run = 2
  /\ pc = "returned"
  /\ DistinctIdentities(products)
  /\ firstLog = <<"error", "inserted">>
  /\ log = <<"inserted", "unchanged">>
  /\ Cardinality(DOMAIN store) = 2

\* merchant_product_id, else sku, else 'unknown'
IdOrSkuOrUnknown(p) ==
  IF Has(p, "merchant_product_id") THEN p.merchant_product_id
  ELSE IF Has(p, "sku") THEN p.sku
  ELSE <<"unknown">>

RECURSIVE FailedIds(_, _)
FailedIds(l, ps) ==
  IF l = <<>> THEN <<>>
  ELSE (IF Head(l) = "error" THEN <<IdOrSkuOrUnknown(Head(ps))>> ELSE <<>>)
       \o FailedIds(Tail(l), Tail(ps))

\* C4: a product whose upsert throws adds one to errors and one entry to
\* error_details with its merchant_product_id, else sku, else 'unknown'; the
\* products after it are attempted in order; the call returns and never throws.
C4_FailureIsolation ==
  /\ pc # "thrown"
  /\ pc = "loop" => Len(log) = idx - 1
  /\ pc = "returned" => Len(log) = Len(products)
  /\ summary.errors = Cardinality({i \in 1..Len(log) : log[i] = "error"})
  /\ [k \in 1..Len(summary.error_details) |-> summary.error_details[k].product_id]
       = FailedIds(log, products)

C4_Witness ==
  /\ pc = "returned"
  /\ Len(products) = 2
  /\ log[1] = "error"
  /\ log[2] = "inserted"
  /\ summary.errors = 1
  /\ summary.inserted = 1

HasAllIds(p) ==
  Has(p, "merchant_product_id") /\ Has(p, "merchant_variant_id") /\ Has(p, "sku")

C6_AttributesShallowMerged ==
  (Called /\ Last.res.action = "updated") =>
    LET old == AttributesOf(Last.pre[1])
        new == AttributesOf(Last.product)
        now == AttributesOf(Post)
    IN  /\ KeySet(now) = KeySet(old) \cup KeySet(new) \cup {"_sync_hash"}
        /\ \A k \in KeySet(new) : AttrGet(now, k) = AttrGet(new, k)
        /\ \A k \in KeySet(old) \ (KeySet(new) \cup {"_sync_hash"}) :
             AttrGet(now, k) = AttrGet(old, k)

\* stored {a:1, b:2} updated with {b:3, c:4} holds {a:1, b:3, c:4}
C6_Witness ==
  /\ Called
  /\ Last.res.action = "updated"
  /\ KeySet(AttributesOf(Last.pre[1])) = {"a", "b", "_sync_hash"}
  /\ AttributesOf(Last.product) = << <<"b", 3>>, <<"c", 4>> >>
  /\ KeySet(AttributesOf(Post)) = {"a", "b", "c", "_sync_hash"}
  /\ AttrGet(AttributesOf(Post), "a") = 1
  /\ AttrGet(AttributesOf(Post), "b") = 3
  /\ AttrGet(AttributesOf(Post), "c") = 4

CoreFields ==
  {"title", "brand", "category", "price", "currency", "quantity", "image_urls",
   "sku", "global_id_type", "global_id_value", "merchant_product_id",
   "merchant_variant_id", "condition", "description"}

\* C7: after an update every core field of the stored record equals the
\* incoming product's, a field the product no longer has being empty.
C7_CoreFieldsOverwritten ==
  (Called /\ Last.res.action = "updated") =>
    \A f \in CoreFields :
      /\ Has(Post, f) <=> Has(Last.product, f)
      /\ Has(Post, f) => Post[f] = Last.product[f]

\* C8: createProductHash returns the same digest for any permutation of
\* image_urls and any insertion order of the keys of attributes.
C8_HashStable == hashOut # <<>> => hashOut[1] = hashOut[2]

\* two images in the other order and two attribute keys in the other order
C8_Witness ==
  /\ hashOut # <<>>
  /\ Len(hashIn[1].attributes) = 2
  /\ hashIn[2].attributes[1] = hashIn[1].attributes[2]
  /\ Has(hashIn[1], "image_urls")
  /\ Len(hashIn[1].image_urls) = 2
  /\ hashIn[1].image_urls[1] # hashIn[1].image_urls[2]
  /\ hashIn[2].image_urls[1] = hashIn[1].image_urls[2]
  /\ hashOut[1] = hashOut[2]

\* the groups of Shopify records of a table: (org_slug, merchant_product_id)
GroupsIn(st) ==
  {<<st[id].org_slug, st[id].merchant_product_id>> :
     id \in {i \in DOMAIN st : IsShopifyRow(st[i]) /\ Has(st[i], "merchant_product_id")}}

Members(st, k) == GroupIds(st, k[1], k[2])

GroupImages(st, k) == UNION {ImagesOf(st[id]) : id \in Members(st, k)}
GroupVariantIds(st, k) == UNION {VariantIds(st[id]) : id \in Members(st, k)}

\* group k of the table `from` is merged in the store: one member remains, a
\* most recently updated one, and it holds the group's images and variant ids
Reconciled(from, k) ==
  /\ Cardinality(Members(store, k)) = 1
  /\ \A s \in Members(store, k) :
       /\ s \in Members(from, k)
       /\ \A o \in Members(from, k) : from[s].updated_at >= from[o].updated_at
       /\ ImagesOf(store[s]) = GroupImages(from, k)
       /\ GroupVariantIds(from, k) \subseteq VariantIds(store[s])
  /\ Members(from, k) \cap DOMAIN store = Members(store, k)

\* C9: after a run of the reconciler that completes without store error,
\* every group of two or more Shopify records sharing (org_slug,
\* merchant_product_id), whatever the text of the two, has exactly one record
\* left, the survivor, with the union of the members' image urls and every
\* variant id of the members; the other members are deleted.
C9_EveryGroupReconciled ==
  dpc = "done" =>
    \A k \in GroupsIn(atStart) :
       Cardinality(Members(atStart, k)) >= 2 => Reconciled(atStart, k)

\* nothing a group held at the start is lost from the group's stored records
NothingLost ==
  \A k \in GroupsIn(original) :
     /\ GroupImages(original, k) \subseteq GroupImages(store, k)
     /\ GroupVariantIds(original, k) \subseteq GroupVariantIds(store, k)

\* a run that returns after an earlier one was killed between the two writes
\* of a group leaves that group merged
InterruptedCompleted ==
  dpc = "done" =>
    \A k \in interrupted :
       /\ Cardinality(Members(store, k)) = 1
       /\ \A s \in Members(store, k) :
            /\ GroupImages(original, k) \subseteq ImagesOf(store[s])
            /\ GroupVariantIds(original, k) \subseteq VariantIds(store[s])

\* records leave the table only in the delete step, when the survivor already
\* holds the merged images and attributes; a failed survivor update changes
\* nothing
MergeBeforeDelete ==
  /\ DOMAIN store' # DOMAIN store =>
       /\ dpc = "delete"
       /\ mergedProduct.id \in DOMAIN store'
       /\ \A f \in {"image_urls", "attributes"} \cap DOMAIN mergedProduct :
            /\ Has(store[mergedProduct.id], f)
            /\ store[mergedProduct.id][f] = mergedProduct[f]
  /\ (dpc = "update" /\ dpc' = "exit1") => store' = store

\* C10: dedupeGroup updates the survivor with the merged data before it
\* deletes a loser, and deletes nothing when the update fails; so in every
\* reachable state, a crash between the two writes included, every image url
\* and variant id a group's members held is still in a stored record, and a
\* later run on that state completes the merge.
C10_MergeThenDelete ==
  /\ [](NothingLost /\ InterruptedCompleted)
  /\ [][MergeBeforeDelete]_vars

\* a run was killed after the survivor update of a three-record group, and
\* the next run completed the merge
C10_Witness ==
  /\ dpc = "done"
  /\ runs = 2
  /\ <<Acme, P1001>> \in interrupted
  /\ Cardinality(Members(original, <<Acme, P1001>>)) = 3
  /\ Cardinality(Members(store, <<Acme, P1001>>)) = 1
  /\ \A s \in Members(store, <<Acme, P1001>>) :
       ImagesOf(store[s]) = {"img1.jpg", "img2.jpg", "img3.jpg"}

\* C11: when the survivor update or the delete of one duplicate group fails
\* with a store error, every other group the scan found is still processed
\* in the same run, so none of them is left with more than one record.
C11_OtherGroupsProcessed ==
  (dpc = "exit1" /\ failure \in {"Failed to update survivor", "Failed to delete losers"}) =>
    \A j \in 1..Len(duplicateGroups) :
       j # gi =>
         Cardinality(GroupIds(store, duplicateGroups[j].org_slug,
                              duplicateGroups[j].merchant_product_id)) <= 1

\* the variant of id vid in a record's attributes.variants
VariantOf(row, vid) ==
  LET vs == VariantsOf(row)
  IN  vs[CHOOSE n \in 1..Len(vs) : Has(vs[n], "id") /\ vs[n].id = vid]

\* C12: the survivor of mergeProducts is the most recently updated member of
\* the group, and a variant id that occurs in the survivor and in an older
\* member is kept in the merged attributes.variants in the survivor's version.
C12_SurvivorVariantWins ==
  dpc \in {"update", "delete"} =>
    /\ mergedProduct.id = fetched[1].id
    /\ \A i \in 2..Len(fetched) : fetched[1].updated_at >= fetched[i].updated_at
    /\ \A vid \in VariantIds(fetched[1]) :
         (\E i \in 2..Len(fetched) : vid \in VariantIds(fetched[i])) =>
            /\ vid \in VariantIds(mergedProduct)
            /\ VariantOf(mergedProduct, vid) = VariantOf(fetched[1], vid)

\* the attribute keys of a record, variants apart
OwnKeys(row) ==
  IF Has(row, "attributes") THEN KeySet(row.attributes) \ {"variants"} ELSE {}

\* the members after the survivor that hold attribute key k, as indexes
Carriers(k) == {i \in 2..Len(fetched) : k \in OwnKeys(fetched[i])}

\* C13: for every attribute key other than variants, the merged record keeps
\* the survivor's value when the survivor has the key, and otherwise carries
\* the value of the most recently updated non-survivor that has it; no key of
\* any member is missing from the merged record.
C13_AttributePrecedence ==
  dpc \in {"update", "delete"} =>
    \A k \in UNION {OwnKeys(fetched[i]) : i \in 1..Len(fetched)} :
       /\ k \in OwnKeys(mergedProduct)
       /\ IF k \in OwnKeys(fetched[1])
            THEN AttrGet(mergedProduct.attributes, k) = AttrGet(fetched[1].attributes, k)
            ELSE \E i \in Carriers(k) :
                    /\ \A j \in Carriers(k) : fetched[i].updated_at >= fetched[j].updated_at
                    /\ AttrGet(mergedProduct.attributes, k) = AttrGet(fetched[i].attributes, k)

\* the survivor has no key a, two older members hold different values of it
\* and the merged record carries the newer one
C13_Witness ==
  /\ dpc = "delete"
  /\ Len(fetched) = 3
  /\ "a" \notin OwnKeys(fetched[1])
  /\ Carriers("a") = {2, 3}
  /\ fetched[2].updated_at > fetched[3].updated_at
  /\ AttrGet(fetched[2].attributes, "a") # AttrGet(fetched[3].attributes, "a")
  /\ AttrGet(mergedProduct.attributes, "a") = AttrGet(fetched[2].attributes, "a")
  /\ AttrGet(store[fetched[1].id].attributes, "a") = AttrGet(fetched[2].attributes, "a")

Returned2 == \A o \in Orgs : tenants[o].pc = "returned"

\* the batch of organization o run alone from table st
Alone(o, st) ==
  RunBatch(st, tenants[o].products, tenants[o].choices, 1,
           EmptySummary(Len(tenants[o].products)))

\* the batch of organization o run after the whole batch of the other one
AfterTheOther(o) ==
  LET other == CHOOSE x \in Orgs : x # o
  IN  Alone(o, Alone(other, <<>>).store)

\* a select of organization o returns records of o only
ReadsOwnOrg ==
  \A o \in Orgs :
     tenants[o].pc = "select" =>
       \A id \in Match(store, MatchConditions(tenants[o].products[tenants[o].idx])) :
          store[id].org_slug = o

\* a step of the batch of organization o leaves the records of every other
\* organization as they are and adds records of o only
WritesOwnOrg ==
  \A o \in Orgs :
     tenants'[o] # tenants[o] =>
       /\ \A id \in DOMAIN store :
            store[id].org_slug # o => id \in DOMAIN store' /\ store'[id] = store[id]
       /\ \A id \in DOMAIN store' \ DOMAIN store : store'[id].org_slug = o

\* both batches returned: each organization's records and summary are those
\* of running its batch alone, before or after the other batch
AsOneAfterTheOther ==
  Returned2 =>
    \A o \in Orgs :
       /\ OrgRecords(store, o) = OrgRecords(Alone(o, <<>>).store, o)
       /\ OrgRecords(store, o) = OrgRecords(AfterTheOther(o).store, o)
       /\ tenants[o].summary = Alone(o, <<>>).summary
       /\ tenants[o].summary = AfterTheOther(o).summary

\* C14: an upsert of a product of organization A reads for matching, inserts
\* and updates only records of A; two batches of two organizations whose
\* store calls interleave in any order leave the store contents and the two
\* summaries of the batches run one after the other (the record ids and
\* updated_at the store and the clock give apart).
C14_OrgIsolation ==
  /\ [](ReadsOwnOrg /\ AsOneAfterTheOther)
  /\ [][WritesOwnOrg]_vars

\* the two batches took turns: records 1 and 3 are of one organization, 2 of
\* the other, one organization had a record updated, and the same sku is
\* stored for both
C14_Witness ==
  /\ Returned2
  /\ DOMAIN store = 1..3
  /\ store[1].org_slug = Acme /\ store[2].org_slug = Beta /\ store[3].org_slug = Acme
  /\ tenants[Beta].summary.updated = 1
  /\ \A id \in 1..3 : Has(store[id], "sku") /\ store[id].sku = Sku1

\* the requests, yields, upserts and delays of a sync over the first k pages:
\* the request of page 1 without cursor, that of page k with the endCursor of
\* page k - 1, after a delay
RECURSIVE Protocol(_)
Protocol(k) ==
  IF k = 0 THEN <<>>
  ELSE Protocol(k - 1)
       \o (IF k = 1 THEN << <<"request", <<>>>> >>
           ELSE << <<"delay", <<>>>>, <<"request", <<k - 1>>>> >>)
       \o << <<"yield", <<k>>>>, <<"upsert", <<k>>>> >>

IsPrefix(s, t) == Len(s) <= Len(t) /\ s = SubSeq(t, 1, Len(s))

\* what the sync did so far is a beginning of the protocol over the upstream's
\* pages, and all of it when the sync returned
FollowsProtocol ==
  /\ IsPrefix(shop.trace, Protocol(Len(shop.pages)))
  /\ shop.pc = "returned" => shop.trace = Protocol(Len(shop.pages))

\* C15: the first page request carries no cursor and each later one the
\* endCursor of the page before; page k+1 is requested only after page k was
\* yielded and its upsert finished; a delay lies between two consecutive
\* requests and none follows the last page; no page is requested twice; the
\* sequence ends after the first page without next page, so the sync ends
\* whenever the upstream reports one.
C15_PagingProtocol ==
  /\ []FollowsProtocol
  /\ <>(shop.pc \in {"returned", "thrown"})

\* a sync over three pages returned: three requests, two delays
C15_Witness ==
  /\ shop.pc = "returned"
  /\ Len(shop.pages) = 3
  /\ Cardinality({i \in 1..Len(shop.trace) : shop.trace[i][1] = "request"}) = 3
  /\ Cardinality({i \in 1..Len(shop.trace) : shop.trace[i][1] = "delay"}) = 2
  /\ shop.summary.seen = 3

-----------------------------------------------------------------------------
(* Properties of the mapper *)

\* two values of the mapper are the same: of one kind and equal
SameValue(a, b) == a.kind = b.kind /\ a.v = b.v

\* two products of the mapper are the same, field by field
SameProduct(p, q) ==
  /\ DOMAIN p = DOMAIN q
  /\ \A f \in DOMAIN p \cap CORE_FIELDS : SameValue(p[f], q[f])
  /\ AttrKeys(p.attributes) = AttrKeys(q.attributes)
  /\ \A i \in 1..Len(p.attributes) : SameValue(p.attributes[i][2], q.attributes[i][2])

\* the call of mapCsvRowToProduct has ended, with a product or with a throw
MapperEnded == mapper.pc \in {"returned", "thrown"}

\* a transform that cannot be evaluated: a regex whose pattern or flags do
\* not compile
Malformed(transform) ==
  /\ transform.op = "regex"
  /\ "pattern" \in DOMAIN transform.args
  /\ ~Compiles(transform.args.pattern, ArgOr(transform, "flags", <<>>))

\* the rules of the call that met a non-empty cell of the row
Applied ==
  {i \in 1..Len(mapper.rules[1]) :
     LET found == HeaderFor(mapper.rawRow, normalizeHeader(mapper.rules[1][i].sourceField))
     IN  found # <<>> /\ Cell(mapper.rawRow, found[1]) # <<>>}

\* C16: when the transform of a rule is malformed, the value of the cell
\* passes through unchanged into the rule's field and mapCsvRowToProduct
\* returns a product for the row; no exception leaves the mapper.
C16_TransformErrorsPassThrough ==
  MapperEnded =>
    \A i \in Applied :
      LET rule == mapper.rules[1][i]
          found == HeaderFor(mapper.rawRow, normalizeHeader(rule.sourceField))
      IN  (rule.transform # <<>> /\ Malformed(rule.transform[1])) =>
            /\ mapper.pc = "returned"
            /\ SameValue(mapper.out.product[Chars(rule.internalField)],
                         Text(Cell(mapper.rawRow, found[1])))

\* the call came without a rule list and the rule store gave no rule: it
\* failed, or it holds none for the organization
NoRuleAnywhere ==
  /\ mapper.mappingRules = <<>>
  /\ mapper.stored.error \/ mapper.stored.data = <<>>

\* C17: a call without a rule list against a rule store that gives no rule
\* maps the row with the built-in default rules, so a row with the header
\* 'Product Name' gets its title.
C17_DefaultRuleFallback ==
  (MapperEnded /\ NoRuleAnywhere) =>
    /\ mapper.pc = "returned"
    /\ SameProduct(mapper.out.product,
                   mapCsvRowToProduct(mapper.rawRow, mapper.orgSlug,
                                      getDefaultMappingRules).product)
    /\ ProductName \in Headers(mapper.rawRow) =>
         /\ "title" \in DOMAIN mapper.out.product
         /\ SameValue(mapper.out.product.title, Text(Cell(mapper.rawRow, ProductName)))

\* the call mapped a row with a non-empty cell under the header 'Images' by a
\* rule list that targets image_urls: the rule without transform, or the
\* built-in default rules
MappedImages ==
  /\ MapperEnded
  /\ <<"Images">> \in Headers(mapper.rawRow)
  /\ Cell(mapper.rawRow, <<"Images">>) # <<>>
  /\ mapper.rules[1] \in {<<ImageRule>>, getDefaultMappingRules}

\* the entries of a delimited list of URLs: split on '|' when the value holds
\* one, else on ',', each entry trimmed, empty entries left out
Entries(value) ==
  LET delimiter == IF Includes(value, "|") THEN "|" ELSE ","
      pieces == SplitText(value, delimiter)
  IN  SelectSeq([i \in 1..Len(pieces) |-> Trim(pieces[i])], LAMBDA u : u # <<>>)

\* C19: a rule that targets image_urls, without transform or the default
\* 'Images' rule, makes of a non-empty value the list of its entries:
\* 'a.jpg,b.jpg' and 'a.jpg|b.jpg' give ['a.jpg','b.jpg'], 'single.jpg' gives
\* ['single.jpg'], each entry trimmed and none empty.
C19_ImageAutoSplit ==
  MappedImages =>
    /\ mapper.pc = "returned"
    /\ "image_urls" \in DOMAIN mapper.out.product
    /\ SameValue(mapper.out.product.image_urls,
                 Array(Entries(Cell(mapper.rawRow, <<"Images">>))))

\* the cells of the row that no rule of the call consumed and that hold a
\* non-empty value
Unconsumed ==
  {i \in 1..Len(mapper.rawRow) :
     /\ mapper.rawRow[i][2] # <<>>
     /\ \A k \in 1..Len(mapper.rules[1]) :
          HeaderFor(mapper.rawRow, normalizeHeader(mapper.rules[1][k].sourceField))
            # <<mapper.rawRow[i][1]>>}

\* digits with optional thousands separators: a run of digits, or one to
\* three digits followed by groups of three digits, a ',' before each group
Grouped(whole) ==
  LET groups == SplitText(whole, ",")
  IN  /\ \A g \in 1..Len(groups) :
           groups[g] # <<>> /\ \A i \in 1..Len(groups[g]) : groups[g][i] \in Digits
      /\ Len(groups) > 1 =>
           /\ Len(groups[1]) <= 3
           /\ \A g \in 2..Len(groups) : Len(groups[g]) = 3

\* a purely numeric text: an optional leading '-', digits with optional
\* thousands separators, at most one decimal part
PurelyNumeric(value) ==
  LET body == IF value # <<>> /\ Head(value) = "-" THEN Tail(value) ELSE value
      parts == SplitText(body, ".")
  IN  /\ Len(parts) <= 2
      /\ Grouped(parts[1])
      /\ Len(parts) = 2 =>
           parts[2] # <<>> /\ \A i \in 1..Len(parts[2]) : parts[2][i] \in Digits

\* C20: every cell that no rule consumed and that is not empty lands in
\* attributes under the normalized key of its header, as a number exactly
\* when its text is purely numeric ('100' gives 100, '10.5' gives 10.5) and
\* as the original text otherwise ('$29.99' stays a text).
C20_UnmappedCoercion ==
  mapper.pc = "returned" =>
    \A i \in Unconsumed :
      LET key == Chars(normalizeAttributeKey(mapper.rawRow[i][1]))
          value == mapper.rawRow[i][2]
          attributes == mapper.out.product.attributes
      IN  /\ HasKey(attributes, key)
          /\ SameValue(AttrGet(attributes, key),
                       IF PurelyNumeric(value)
                       THEN Number(parseFloat(Without(value, {","})))
                       ELSE Text(value))

\* the call mapped a row with a non-empty cell under the header 'Condition'
\* by a rule that targets condition
MappedCondition ==
  /\ MapperEnded
  /\ <<"Condition">> \in Headers(mapper.rawRow)
  /\ Cell(mapper.rawRow, <<"Condition">>) # <<>>
  /\ mapper.rules[1] \in {<<ConditionRule>>, getDefaultMappingRules}

\* the conditions and the texts that name them, in lower case
ConditionNames ==
  [new |-> {<<"new">>, <<"brand", " ", "new">>},
   used |-> {<<"used">>, <<"pre", "-", "owned">>},
   refurbished |-> {<<"refurbished">>, <<"renewed">>},
   open_box |-> {<<"open", " ", "box">>, <<"open", "-", "box">>, <<"openbox">>}]

\* the condition a text names, whatever its case and its outer white space
NamedCondition(value) ==
  LET named == {c \in DOMAIN ConditionNames : toLowerCase(Trim(value)) \in ConditionNames[c]}
  IN  IF named = {} THEN "other" ELSE CHOOSE c \in named : TRUE

EqualHeader(i, k) ==
  /\ mapper.rawRow[i][2] # <<>>
  /\ normalizeHeader(mapper.rawRow[i][1]) = normalizeHeader(mapper.rules[1][k].sourceField)

\* no later rule of the call wrote the field of rule k
LastWriter(k) ==
  \A l \in (k + 1)..Len(mapper.rules[1]) :
    mapper.rules[1][l].internalField = mapper.rules[1][k].internalField
      => \A j \in 1..Len(mapper.rawRow) : ~EqualHeader(j, l)

\* rule k consumed cell i: the value of the cell is in the core field of the
\* rule (a rule without transform, a field without special handling),
\* unless a later rule wrote that field, and it did not land in attributes
\* under the key of its header
Consumed(i, k) ==
  LET rule == mapper.rules[1][k]
      key == Chars(normalizeAttributeKey(mapper.rawRow[i][1]))
      value == mapper.rawRow[i][2]
      product == mapper.out.product
  IN  /\ HasKey(product.attributes, key)
           => ~SameValue(AttrGet(product.attributes, key), Coerced(value))
      /\ (/\ LastWriter(k)
          /\ rule.transform = <<>>
          /\ Chars(rule.internalField) \in CORE_FIELDS \ {"image_urls", "condition"})
           => /\ Chars(rule.internalField) \in DOMAIN product
              /\ SameValue(product[Chars(rule.internalField)], Text(value))

\* C22 as claimed: a raw header matches a rule whenever the two are equal
\* after normalization, so every such cell is consumed by the rule.
C22_EveryEqualHeaderMatches ==
  mapper.pc = "returned" =>
    \A i \in 1..Len(mapper.rawRow) : \A k \in 1..Len(mapper.rules[1]) :
      EqualHeader(i, k) => Consumed(i, k)

\* no later header of the row is equal to header i after normalization
LastOfItsName(i) ==
  \A j \in (i + 1)..Len(mapper.rawRow) :
    normalizeHeader(mapper.rawRow[j][1]) # normalizeHeader(mapper.rawRow[i][1])

\* C22, amended: a raw header matches a rule when the two are equal after
\* normalization and no later header of the row is equal to them after
\* normalization; of several such headers only the last is consumed.
C22_LastEqualHeaderMatches ==
  mapper.pc = "returned" =>
    \A i \in 1..Len(mapper.rawRow) : \A k \in 1..Len(mapper.rules[1]) :
      (EqualHeader(i, k) /\ LastOfItsName(i)) => Consumed(i, k)

\* the default rules gave the title from a header written with a byte-order
\* mark, in capitals and with runs of spaces
C22_Witness ==
  /\ mapper.pc = "returned"
  /\ mapper.rules[1] = getDefaultMappingRules
  /\ mapper.rawRow = << <<<<"BOM", " ", "PRODUCT", " ", " ", "NAME", " ">>, <<"Gadget">>>> >>
  /\ mapper.out.product.title = Text(<<"Gadget">>)

\* rule k of the call finds a header of the row
Matching(k) ==
  HeaderFor(mapper.rawRow, normalizeHeader(mapper.rules[1][k].sourceField)) # <<>>

\* rules k and l have different source fields and the same internal field
Rivals(k, l) ==
  /\ mapper.rules[1][k].sourceField # mapper.rules[1][l].sourceField
  /\ mapper.rules[1][k].internalField = mapper.rules[1][l].internalField

\* the value a product holds in the internal field of a rule
Written(product, rule) ==
  IF Chars(rule.internalField) \in CORE_FIELDS
  THEN product[Chars(rule.internalField)]
  ELSE AttrGet(product.attributes,
               Chars(IF Head(rule.internalField) = "attributes."
                     THEN Tail(rule.internalField) ELSE rule.internalField))

\* the value rule k alone writes for the row of the call
WrittenAlone(k) ==
  Written(ApplyRule([product |-> [org_slug |-> mapper.orgSlug, attributes |-> <<>>],
                     mappedHeaders |-> {}, threw |-> FALSE],
                    mapper.rawRow, mapper.rules[1][k]).product,
          mapper.rules[1][k])

\* C25: when several rules with different source fields and the same
\* internal field find their header in the row, the field holds the value of
\* the last of them whose cell is not empty; a later one whose cell is empty
\* erases nothing.
C25_LastRuleWins ==
  mapper.pc = "returned" =>
    \A k \in Applied :
      (/\ \E l \in 1..Len(mapper.rules[1]) : Rivals(k, l) /\ Matching(l)
       /\ \A l \in Applied : l > k =>
            mapper.rules[1][l].internalField # mapper.rules[1][k].internalField)
        => SameValue(Written(mapper.out.product, mapper.rules[1][k]), WrittenAlone(k))

\* a row with 'MSRP' and 'Cost' went through the default rules and the
\* price is the one of 'Cost'
C25_Witness ==
  /\ mapper.pc = "returned"
  /\ mapper.rules[1] = getDefaultMappingRules
  /\ mapper.rawRow = << <<<<"Cost">>, <<"2">>>>, <<<<"MSRP">>, <<"1">>>> >>
  /\ SameValue(mapper.out.product.price, Number(parseFloat(<<"2">>)))

\* a row with 'MSRP' and an empty 'Price' went through the default rules and
\* the price is still the one of 'MSRP'
EmptyLaterCellKeepsValue ==
  /\ mapper.pc = "returned"
  /\ mapper.rules[1] = getDefaultMappingRules
  /\ mapper.rawRow = << <<<<"MSRP">>, <<"1">>>>, <<<<"Price">>, <<>>>> >>
  /\ SameValue(mapper.out.product.price, Number(parseFloat(<<"1">>)))

-----------------------------------------------------------------------------
(* Properties of the last-resort title *)

\* the latest call inserted a product without title after a lookup on an
\* identity key that found no record
InsertedUntitled ==
  /\ Called
  /\ Last.res.action = "inserted"
  /\ Last.columns # {}
  /\ ~Truthy(Last.product, "title")

\* C18: a product without title that is inserted after an identity-key
\* lookup found no record gets as title its first attribute value when it
\* has an attribute and that value is a string; otherwise the record is
\* inserted without title, and never with the _sync_hash as title.
C18_LastResortTitle ==
  InsertedUntitled =>
    LET attrs == AttributesOf(Last.product)
    IN  IF attrs # <<>> /\ attrs[1][1] \in StringKeys
        THEN Has(Post, "title") /\ Post.title = attrs[1][2]
        ELSE ~Has(Post, "title")

-----------------------------------------------------------------------------
(* Properties of the stored digest *)

\* the latest call completed with an insert or an update
LastWrote == Called /\ ~Last.res.threw /\ Last.res.action \in {"inserted", "updated"}

\* the record the latest call wrote holds the digest of the call's product
WrittenHoldsDigest ==
  LastWrote =>
    /\ HasKey(AttributesOf(Post), "_sync_hash")
    /\ AttrGet(Post.attributes, "_sync_hash") = createProductHash(Last.product)

\* the record an 'unchanged' call matched is as it was before the call
UnchangedUntouched ==
  (Called /\ ~Last.res.threw /\ Last.res.action = "unchanged") =>
    /\ Last.pre # <<>>
    /\ Post = Last.pre[1]

\* a step leaves every record but the one its call wrote as it was, and a
\* call that returns 'unchanged' or throws writes none
OthersKept ==
  \A id \in DOMAIN store :
    /\ id \in DOMAIN store'
    /\ (recent' = recent \/ recent'[Len(recent')].res.action \notin {"inserted", "updated"}
          \/ recent'[Len(recent')].res.productId # id)
         => store'[id] = store[id]

\* C29: after any sequence of upsertProduct calls every record holds in
\* attributes._sync_hash the digest of the product last written into it by
\* an insert or an update; an 'unchanged' outcome leaves the record, its
\* _sync_hash and updated_at included, untouched.
C29_StoredHashInvariant ==
  /\ [](WrittenHoldsDigest /\ UnchangedUntouched)
  /\ [][OthersKept]_vars

\* an update replaced the digest of the matched record by that of the new
\* product
C29_Witness ==
  /\ LastWrote
  /\ Last.res.action = "updated"
  /\ Last.pre # <<>>
  /\ AttrGet(Last.pre[1].attributes, "_sync_hash") # createProductHash(Last.product)
  /\ AttrGet(Post.attributes, "_sync_hash") = createProductHash(Last.product)

-----------------------------------------------------------------------------
(* Properties of the group keys of the reconciler *)

\* findDuplicateGroups has returned and no group was touched yet
Scanned == dpc = "dedupeGroup" /\ gi = 1 /\ store = atStart

\* C28: every group findDuplicateGroups reports carries the (org_slug,
\* merchant_product_id) of the records counted into it, a ':' in either
\* included, so that getProductsInGroup of the reported pair returns as many
\* records as the reported duplicate_count.
C28_GroupKeyRoundTrip ==
  Scanned =>
    \A n \in 1..Len(duplicateGroups) :
      Cardinality(GroupIds(store, duplicateGroups[n].org_slug,
                           duplicateGroups[n].merchant_product_id))
        = duplicateGroups[n].duplicate_count

-----------------------------------------------------------------------------
(* Frame of the reconciler *)

\* record id of the table is not of source 'shopify', or no other Shopify
\* record of the table has its org_slug and merchant_product_id
OutsideGroups(st, id) ==
  \/ ~IsShopifyRow(st[id])
  \/ ~\E j \in DOMAIN st \ {id} :
        /\ IsShopifyRow(st[j])
        /\ st[j].org_slug = st[id].org_slug
        /\ Has(st[j], "merchant_product_id") = Has(st[id], "merchant_product_id")
        /\ Has(st[id], "merchant_product_id")
             => st[j].merchant_product_id = st[id].merchant_product_id

FrameKept ==
  /\ \A id \in DOMAIN store :
       OutsideGroups(store, id) => id \in DOMAIN store' /\ store'[id] = store[id]
  /\ (\A id \in DOMAIN store : OutsideGroups(store, id)) => store' = store

\* C30: a run of the reconciler never updates or deletes a record whose
\* source is not 'shopify', nor a Shopify record that is the only one with
\* its (org_slug, merchant_product_id); on a table without group of two or
\* more it writes nothing.
C30_ReconcilerFrame == [][FrameKept]_vars

\* a run merged a group and returned, and a record of another source is
\* stored as it was at the start
C30_Witness ==
  /\ dpc = "done"
  /\ store # atStart
  /\ \E id \in DOMAIN store :
       /\ ~IsShopifyRow(store[id])
       /\ id \in DOMAIN atStart
       /\ store[id] = atStart[id]
       /\ \E j \in DOMAIN store :
            /\ IsShopifyRow(store[j])
            /\ store[j].merchant_product_id = store[id].merchant_product_id

-----------------------------------------------------------------------------
(* Properties of two calls of upsertProduct at once *)

\* both calls returned, each after a lookup and an insert or an update
BothWrote ==
  /\ \A o \in Orgs : tenants[o].pc = "returned"
  /\ \A o \in Orgs : tenants[o].summary.inserted + tenants[o].summary.updated = 1

\* C26: after two interleaved calls of upsertProduct for products with the
\* same identity key against a table without a record for that key, the
\* table holds exactly one record for the key.
C26_NoDuplicateFromRace ==
  BothWrote =>
    Cardinality(Match(store, MatchConditions(tenants[Acme].products[1]))) = 1

-----------------------------------------------------------------------------
(* Properties of the summaries *)

\* the counters of a summary over n products add up
Accounted(s, n) ==
  /\ s.seen = n
  /\ s.seen = s.inserted + s.updated + s.unchanged + s.errors
  /\ s.errors = Len(s.error_details)

\* the pages the sync has upserted so far, and the products on them
UpsertedPages == Cardinality({i \in 1..Len(shop.trace) : shop.trace[i][1] = "upsert"})

RECURSIVE ProductsOnPages(_)
ProductsOnPages(k) ==
  IF k = 0 THEN 0 ELSE ProductsOnPages(k - 1) + Len(shop.pages[k])

\* C27: in the summary batchUpsertProducts returns, seen is the number of
\* input products and equals inserted + updated + unchanged + errors, and
\* errors is the length of error_details; the summary syncShopifyCatalog sums
\* over the pages satisfies the same equations.
C27_SummaryAccounting ==
  /\ Accounted(summary, Len(products))
  /\ Accounted(shop.summary, ProductsOnPages(UpsertedPages))

\* a sync of two pages returned: of three products one was inserted and one
\* failed
C27_Witness ==
  /\ shop.pc = "returned"
  /\ Len(shop.pages) = 2
  /\ shop.summary.seen = 3
  /\ shop.summary.inserted = 1
  /\ shop.summary.errors = 1
  /\ summary.seen = Len(products)
  /\ summary.errors = 1

-----------------------------------------------------------------------------
(* Properties of change detection *)

\* C24: two products with the same identity key that differ only in an
\* attribute value, a field of an entry of attributes.variants included,
\* have different digests, and ingesting the changed one over the stored one
\* is classified 'updated'.
C24_AttributesHashedInDepth ==
  Len(hashOut) = 3 => hashOut[1] # hashOut[2] /\ hashOut[3] = "updated"

-----------------------------------------------------------------------------
(* Properties of normalizeShopifyProduct *)

\* the sum of the inventory quantities of the variants, a null one counting 0
RECURSIVE SumOfQuantities(_)
SumOfQuantities(nodes) ==
  IF nodes = <<>> THEN 0
  ELSE (IF "inventoryQuantity" \in DOMAIN Head(nodes) THEN Head(nodes).inventoryQuantity ELSE 0)
       + SumOfQuantities(Tail(nodes))

\* C23: the quantity of the normalized product is the sum of the inventory
\* quantities of all variants of the fetched product, a null quantity
\* counting as 0, also when that sum is 0.
C23_QuantityIsSum ==
  normalizer.pc = "normalized" =>
    /\ "quantity" \in DOMAIN normalizer.out
    /\ normalizer.out.quantity = SumOfQuantities(normalizer.product.variants)

====
